---- MODULE Spec2Model ----
(***************************************************************************)
(* Weather Chaser (src/app.js): the greedy multi-day route planner         *)
(* (buildRoute / optimizeRoute / findNextBestLocation, both the variant    *)
(* that consults the road-routing service and the great-circle variant)    *)
(* and the weather scorer (calculateScores).                               *)
(*                                                                         *)
(* Units.  Scores are kept in tenths of a point (score 90.0 is 900), the   *)
(* way calculateScores rounds them.  Distances are kept in tenths of a     *)
(* kilometre (50 km is 500); the road service answers in metres and        *)
(* seconds.  A coordinate pair is a point id; the great-circle distance    *)
(* of two coordinate pairs is looked up in geo, the table of pairwise      *)
(* haversine distances of the points in play.                              *)
(***************************************************************************)
EXTENDS Integers, Sequences, FiniteSets, TLC

VARIABLES
    weatherData,    \* this.weatherData: the scored locations, in table order
    geo,            \* great-circle distance (0.1 km) of every pair of points
    pc,             \* where buildRoute stands: "idle", "loop", "done"
    alertMsg,       \* the last alert() shown ("" when none)
    loading,        \* the loading indicator (showLoading)
    currentRoute,   \* this.currentRoute; <<>> stands for null
    shownRoute,     \* what displayRoute / displayItinerary last drew
    osrmCalled,     \* a road-routing request has been issued
    maxTravel,      \* optimizeRoute: maxTravelPerDay (km)
    totalDays,      \* optimizeRoute: totalDays
    startPoint,     \* optimizeRoute: startPoint, a point id; NoPoint for null
    sortedSpots,    \* optimizeRoute: sortedSpots
    route,          \* optimizeRoute: route
    visited,        \* optimizeRoute: visited (indices into sortedSpots, from 1)
    currentPoint,   \* optimizeRoute: currentPoint, a point id
    day,            \* optimizeRoute: the loop variable day
    fetched,        \* handleSearch: what fetchWeatherForGrid returned
    searchPc,       \* where handleSearch stands: "idle", "grid", "fetching", "fetched",
                    \* "scored" (results displayed), "failed" (error alerted)
    currentSortColumn,      \* this.currentSortColumn; "" stands for null
    currentSortDirection,   \* this.currentSortDirection: "asc" or "desc"
    retryCount,     \* fetchWeatherForPoint, per point: retryCount of the call in progress
    requests,       \* per point: the responses to the fetch() calls issued, in order
    slept,          \* per point: the waits (ms) slept so far, in order
    fetchPc,        \* per point: where fetchWeatherForPoint stands: "wait" (not yet
                    \* called), "call" or "done"
    pointWeather,   \* per point: the weather returned, "daily", "null" or "none" yet
    searchInput,    \* handleSearch: the mode, the grid size and the area searched
    gridPoints,     \* handleSearch: gridPoints
    weatherRequests,    \* the points a forecast request was issued for
    callArgs,       \* the arguments of a function called on its own
    callResult,     \* what that call returned
    gridPc,         \* where fetchWeatherForGrid stands: "idle", "map", "await", "sleep", "returned"
    batchStart,     \* fetchWeatherForGrid: the loop variable i
    results,        \* fetchWeatherForGrid: results
    pauses,         \* fetchWeatherForGrid: the inter-batch sleeps (ms) so far, in order
    settled,        \* per point: the last response of its settled fetchWeatherForPoint, "" before
    table,          \* the rows of the results table: location ids, top to bottom
                    \* (table, markers and dropdown are followed in the
                    \* specifications of searches and sorting)
    markers,        \* this.markers: the location ids of the markers on the map
    dropdown,       \* the options of the start-location dropdown after the default
                    \* one: the location id each names, option k having value k - 1
    searches        \* the handleSearch calls under way or finished, in the order started

routeVars == <<weatherData, geo, pc, alertMsg, loading, currentRoute, shownRoute,
               osrmCalled, maxTravel, totalDays, startPoint, sortedSpots, route,
               visited, currentPoint, day>>

scoreVars == <<fetched, searchPc>>

sortVars == <<currentSortColumn, currentSortDirection>>

fetchVars == <<retryCount, requests, slept, fetchPc, pointWeather>>

callVars == <<callArgs, callResult>>

gridVars == <<searchInput, gridPoints, weatherRequests>>

batchVars == <<gridPc, batchStart, results, pauses, settled>>

displayVars == <<table, markers, dropdown>>

extVars == <<batchVars, displayVars, searches>>

otherVars == <<sortVars, fetchVars, callVars, gridVars, extVars>>

vars == <<routeVars, scoreVars, otherVars>>

----------------------------------------------------------------------------
(* Bounds of the model *)

MaxSpots == 2
MaxDays == 3

(* Values the inputs are drawn from *)

\* scores (tenths) calculateScores can produce: 5.0, 80.0, 90.0
ScoreValues == {50, 800, 900}
\* pairwise great-circle distances (0.1 km): 50 km and 90 km
DistValues == {500, 900}
\* the maxTravelPerDay input (km)
MaxTravelValues == {60, 80}

NoPoint == 0

----------------------------------------------------------------------------
(* The road-routing service *)

\* what one request to the service can come back with: a failure (a
\* non-success status, a body that is no 'Ok' route, an exception), or a route
\* with its distance in metres and duration in seconds
FailedReplies == {[ok |-> FALSE, distance |-> 0, duration |-> 0]}
RouteReplies == {[ok |-> TRUE, distance |-> 60400, duration |-> 2730]}
RoadReplies == FailedReplies \cup RouteReplies

\* calculateDistance: the haversine distance of two coordinate pairs
calculateDistance(p, q) == geo[<<p, q>>]

\* the mutant of calculateRoadDistance: no fallback, a failed lookup gives 0
calculateRoadDistanceNoFallback(reply, p, q) ==
    IF reply.ok
    THEN [object |-> TRUE, distance |-> reply.distance \div 100, duration |-> reply.duration]
    ELSE [object |-> FALSE, distance |-> 0, duration |-> 0]

\* calculateRoadDistance: the route's distance (0.1 km) and duration (seconds;
\* the code divides by 60 and the caller rounds) as an object, or the
\* great-circle distance as a bare number when the lookup fails
calculateRoadDistance(reply, p, q) ==
    IF reply.ok
    THEN [object |-> TRUE, distance |-> reply.distance \div 100, duration |-> reply.duration]
    ELSE [object |-> FALSE, distance |-> calculateDistance(p, q), duration |-> 0]

\* Math.round of x / d for x >= 0, d > 0
RoundDiv(x, d) == (2 * x + d) \div (2 * d)

----------------------------------------------------------------------------
(* Scored locations *)

NoSpot == [id |-> NoPoint, score |-> 0, rank |-> 0]
NoOption == [location |-> NoSpot, index |-> 0]

\* a location scored by an earlier search, no longer in weatherData
EarlierSpot == [id |-> 99, score |-> 900, rank |-> 1]

\* route.push({day: 1, location: currentPoint, distance: 0, driveTime: 0, ...})
SeedStop(spot) == [day |-> 1, location |-> spot, distance |-> 0, driveTime |-> 0]

\* the mutant of AssignRanks: the rank taken to be the index itself
AssignRanksFromZero(spots) == [i \in 1..Len(spots) |-> [spots[i] EXCEPT !.rank = i - 1]]

\* results.forEach((item, index) => item.rank = index + 1)
AssignRanks(spots) == [i \in 1..Len(spots) |-> [spots[i] EXCEPT !.rank = i]]

\* insert x behind every element of the score-descending sequence s whose score
\* is not lower: what a stable sort with (a, b) => b.score - a.score does
RECURSIVE InsertByScore(_, _)
InsertByScore(s, x) ==
    IF s = <<>> THEN <<x>>
    ELSE IF Head(s).score >= x.score
         THEN <<Head(s)>> \o InsertByScore(Tail(s), x)
         ELSE <<x>> \o s

\* [...weatherData].sort((a, b) => b.score - a.score): Array.prototype.sort is stable
RECURSIVE SortByScoreDesc(_)
SortByScoreDesc(spots) ==
    IF spots = <<>> THEN <<>>
    ELSE InsertByScore(SortByScoreDesc(SubSeq(spots, 1, Len(spots) - 1)), spots[Len(spots)])

----------------------------------------------------------------------------
(* findNextBestLocation, the variant that consults the road-routing service *)

\* the air-distance prefilter: airDistance <= maxTravel * 1.2
WithinAirRange(airDistance, maxT) == airDistance <= 12 * maxT

\* candidatesInRange without the test of visited
CandidatesInRangeRevisiting(current, spots, seen, maxT) ==
    {i \in 1..Len(spots) :
        WithinAirRange(calculateDistance(current, spots[i].id), maxT)}

\* the indices of candidatesInRange, in the order of sortedSpots
CandidatesInRange(current, spots, seen, maxT) ==
    {i \in 1..Len(spots) :
        /\ i \notin seen
        /\ WithinAirRange(calculateDistance(current, spots[i].id), maxT)}

\* the distance the loop over candidatesInRange evaluates for one candidate
EvaluatedDistance(reply, current, candidate) ==
    calculateRoadDistance(reply, current, candidate.id).distance

\* if (distance > maxTravel) continue
ExceedsBudget(distance, maxT) == distance > 10 * maxT

\* the mutant of DirectionPenalty: a candidate no nearer to the previous
\* location than its forward distance is penalised too
DirectionPenaltyNotFarther(candidate, previousLocation, distance) ==
    IF /\ previousLocation # NoPoint
       /\ calculateDistance(candidate.id, previousLocation) <= distance
    THEN 20 ELSE 0

\* directionPenalty
DirectionPenalty(candidate, previousLocation, distance) ==
    IF /\ previousLocation # NoPoint
       /\ calculateDistance(candidate.id, previousLocation) < distance
    THEN 20 ELSE 0

\* totalScore = candidate.score + ((maxTravel - distance) / maxTravel) * 30
\*              - directionPenalty, times 10 * maxTravel to stay in the integers
TotalScore(candidate, distance, maxT, previousLocation) ==
    candidate.score * maxT + 30 * (10 * maxT - distance)
        - DirectionPenalty(candidate, previousLocation, distance) * 10 * maxT

\* let bestScore = -1, on the same scale
InitialBestScore(maxT) == (0 - 1) * 10 * maxT

\* if (totalScore > bestScore)
Improves(totalScore, bestScore) == totalScore > bestScore

\* the loop over candidatesInRange from index i on, carrying bestOption and
\* bestScore; replies[i] is the service's answer to the lookup for candidate i
RECURSIVE BestFrom(_, _, _, _, _, _, _, _)
BestFrom(i, bestOption, bestScore, current, spots, inRange, maxT, args) ==
    IF i > Len(spots) THEN bestOption
    ELSE IF i \notin inRange
         THEN BestFrom(i + 1, bestOption, bestScore, current, spots, inRange, maxT, args)
    ELSE LET distance == EvaluatedDistance(args.replies[i], current, spots[i])
             totalScore == TotalScore(spots[i], distance, maxT, args.previousLocation)
         IN  IF ExceedsBudget(distance, maxT)
             THEN BestFrom(i + 1, bestOption, bestScore, current, spots, inRange, maxT, args)
             ELSE IF Improves(totalScore, bestScore)
                  THEN BestFrom(i + 1, [location |-> spots[i], index |-> i], totalScore,
                                current, spots, inRange, maxT, args)
                  ELSE BestFrom(i + 1, bestOption, bestScore, current, spots, inRange,
                                maxT, args)

findNextBestLocation(current, spots, seen, maxT, previousLocation, replies) ==
    BestFrom(1, NoOption, InitialBestScore(maxT), current, spots,
             CandidatesInRange(current, spots, seen, maxT), maxT,
             [previousLocation |-> previousLocation, replies |-> replies])

----------------------------------------------------------------------------
(* buildRoute and optimizeRoute, the variant that consults the road service *)

\* the points in play when n locations are scored
Points(n) == 1..n

\* the table of great-circle distances with h[<<p, q>>] for p < q
Symmetric(h, n) ==
    [pq \in Points(n) \X Points(n) |->
        IF pq[1] = pq[2] THEN 0
        ELSE IF pq[1] < pq[2] THEN h[pq] ELSE h[<<pq[2], pq[1]>>]]

UpperPairs(n) == {pq \in Points(n) \X Points(n) : pq[1] < pq[2]}

\* a scored set as handleSort can leave it: any table order, ranks by position
ScoredSets(n) ==
    {[i \in 1..n |-> [id |-> i, score |-> s[i], rank |-> i]] : s \in [1..n -> ScoreValues]}

\* the constructor's sort state
SortFresh == currentSortColumn = "" /\ currentSortDirection = "desc"

\* no fetchWeatherForPoint call in progress
FetchIdle ==
    /\ retryCount = <<>> /\ requests = <<>> /\ slept = <<>>
    /\ fetchPc = <<>> /\ pointWeather = <<>>

\* no function called on its own
NoCall == callArgs = <<>> /\ callResult = <<>>

\* no grid generated
NoGrid == searchInput = <<>> /\ gridPoints = <<>> /\ weatherRequests = <<>>

\* fetchWeatherForGrid not called
NoBatch ==
    /\ gridPc = "idle" /\ batchStart = 0 /\ results = <<>> /\ pauses = <<>>
    /\ settled = <<>>

\* nothing displayed, no option but the default one
NoDisplay == table = <<>> /\ markers = <<>> /\ dropdown = <<>>

NoExt == NoBatch /\ NoDisplay /\ searches = <<>>

Untouched == SortFresh /\ FetchIdle /\ NoCall /\ NoGrid /\ NoExt

\* no search in progress
SearchIdle == fetched = <<>> /\ searchPc = "idle"

\* no buildRoute in progress
RouteIdle ==
    /\ pc = "idle" /\ alertMsg = "" /\ loading = FALSE /\ osrmCalled = FALSE
    /\ maxTravel = 0 /\ totalDays = 0 /\ startPoint = NoPoint
    /\ sortedSpots = <<>> /\ route = <<>> /\ visited = {}
    /\ currentPoint = NoPoint /\ day = 0

\* nothing scored, nothing planned
NoData == weatherData = <<>> /\ geo = <<>> /\ currentRoute = <<>> /\ shownRoute = <<>>

Idle == Untouched /\ SearchIdle /\ RouteIdle

\* a search does not reset this.currentRoute nor the drawn route: the route of
\* an earlier search may still be held.  It is kept in the states in which
\* buildRoute will refuse, where it is what the refusal must leave alone
EarlierRoutes(n) == IF n < 2 THEN {<<>>, <<SeedStop(EarlierSpot)>>} ELSE {<<>>}

Init ==
    /\ \E n \in 0..MaxSpots :
         /\ weatherData \in ScoredSets(n)
         /\ \E h \in [UpperPairs(n) -> DistValues] : geo = Symmetric(h, n)
         /\ currentRoute \in EarlierRoutes(n)
    /\ shownRoute = currentRoute
    /\ Idle

\* the refusal test off by one
TooFewSpotsBelowOne(data) == Len(data) < 1

\* if (!this.weatherData || this.weatherData.length < 2)
TooFewSpots(data) == Len(data) < 2

\* the day counter started at 2 whether or not a start is given
FirstDayAlwaysTwo(start) == 2

\* for (let day = startPoint ? 1 : 2; ...)
FirstDay(start) == IF start # NoPoint THEN 1 ELSE 2

\* day <= totalDays && route.length < sortedSpots.length
LoopGuard == day <= totalDays /\ Len(route) < Len(sortedSpots)

\* route.length > 0 ? route[route.length - 1].location : null
PreviousLocation(r) == IF Len(r) > 0 THEN r[Len(r)].location.id ELSE NoPoint

\* the stop optimizeRoute pushes for nextLocation, from the second lookup roadInfo
NewStop(d, spot, roadInfo) ==
    [day |-> d, location |-> spot,
     distance |-> RoundDiv(roadInfo.distance, 10),
     driveTime |-> IF roadInfo.object THEN RoundDiv(roadInfo.duration, 60)
                   ELSE RoundDiv(3 * roadInfo.distance, 40)]

\* what buildRoute does with the route optimizeRoute returns
Returned(r) ==
    /\ pc' = "done"
    /\ loading' = FALSE
    /\ IF Len(r) = 0
       THEN /\ alertMsg' = "Could not build a valid route with the given constraints"
            /\ UNCHANGED <<currentRoute, shownRoute>>
       ELSE /\ currentRoute' = r
            /\ shownRoute' = r
            /\ UNCHANGED alertMsg

\* buildRoute with fewer than 2 scored locations
BuildRouteRefuse ==
    /\ pc = "idle"
    /\ TooFewSpots(weatherData)
    /\ alertMsg' = "Need at least 2 weather spots to build a route"
    /\ pc' = "done"
    /\ UNCHANGED <<scoreVars, otherVars, weatherData, geo, loading, currentRoute, shownRoute, osrmCalled,
                   maxTravel, totalDays, startPoint, sortedSpots, route, visited,
                   currentPoint, day>>

\* selectedPoint = this.weatherData[parseInt(startLocationIndex)], for the
\* option at position startLocationIndex after the default one (its value is
\* startLocationIndex - 1, the positions of weatherData being counted from 1)
SelectedPoint(startLocationIndex) == weatherData[startLocationIndex].id

\* buildRoute up to the first day of optimizeRoute: the inputs are read, the
\* start is taken from the dropdown (0 is the default option ''), the copy is
\* sorted and the route is seeded
BuildRouteStart ==
    /\ pc = "idle"
    /\ ~TooFewSpots(weatherData)
    /\ \E m \in MaxTravelValues, d \in 1..MaxDays, startLocationIndex \in 0..Len(weatherData) :
         LET start == IF startLocationIndex # 0
                      THEN SelectedPoint(startLocationIndex) ELSE NoPoint
             spots == SortByScoreDesc(weatherData)
         IN  /\ maxTravel' = m
             /\ totalDays' = d
             /\ startPoint' = start
             /\ sortedSpots' = spots
             /\ IF start # NoPoint
                THEN /\ currentPoint' = start
                     /\ route' = <<>>
                     /\ visited' = {}
                ELSE /\ currentPoint' = spots[1].id
                     /\ route' = <<SeedStop(spots[1])>>
                     /\ visited' = {1}
             /\ day' = FirstDay(start)
    /\ loading' = TRUE
    /\ pc' = "loop"
    /\ UNCHANGED <<scoreVars, otherVars, weatherData, geo, alertMsg, currentRoute, shownRoute, osrmCalled>>

\* one iteration of the day loop in which findNextBestLocation finds a stop
DayStop ==
    /\ pc = "loop"
    /\ LoopGuard
    /\ LET inRange == CandidatesInRange(currentPoint, sortedSpots, visited, maxTravel)
       IN \E replies \in [inRange -> RoadReplies], second \in RoadReplies :
            LET nextLocation == findNextBestLocation(currentPoint, sortedSpots, visited,
                                    maxTravel, PreviousLocation(route), replies)
                roadInfo == calculateRoadDistance(second, currentPoint,
                                                  nextLocation.location.id)
            IN  /\ nextLocation # NoOption
                /\ route' = Append(route, NewStop(day, nextLocation.location, roadInfo))
                /\ visited' = visited \cup {nextLocation.index}
                /\ currentPoint' = nextLocation.location.id
    /\ day' = day + 1
    /\ osrmCalled' = TRUE
    /\ UNCHANGED <<scoreVars, otherVars, weatherData, geo, pc, alertMsg, loading, currentRoute, shownRoute,
                   maxTravel, totalDays, startPoint, sortedSpots>>

\* the iteration in which findNextBestLocation returns null: break, and
\* buildRoute takes the route as it stands
DayBreak ==
    /\ pc = "loop"
    /\ LoopGuard
    /\ LET inRange == CandidatesInRange(currentPoint, sortedSpots, visited, maxTravel)
       IN /\ \E replies \in [inRange -> RoadReplies] :
                findNextBestLocation(currentPoint, sortedSpots, visited, maxTravel,
                                     PreviousLocation(route), replies) = NoOption
          /\ osrmCalled' = (osrmCalled \/ inRange # {})
    /\ Returned(route)
    /\ UNCHANGED <<scoreVars, otherVars, weatherData, geo, maxTravel, totalDays, startPoint, sortedSpots,
                   route, visited, currentPoint, day>>

\* the loop condition fails: optimizeRoute returns the route
LoopEnd ==
    /\ pc = "loop"
    /\ ~LoopGuard
    /\ Returned(route)
    /\ UNCHANGED <<scoreVars, otherVars, weatherData, geo, osrmCalled, maxTravel, totalDays, startPoint,
                   sortedSpots, route, visited, currentPoint, day>>

Next == BuildRouteRefuse \/ BuildRouteStart \/ DayStop \/ DayBreak \/ LoopEnd

Spec == Init /\ [][Next]_vars

----------------------------------------------------------------------------
(* The great-circle variant of the planner (the second WeatherChaser class of *)
(* src/app.js): the start is a geocoded address, every distance is the        *)
(* haversine distance, and findNextBestLocation is synchronous                *)

GCMaxSpots == 3

\* values the great-circle variant's inputs are drawn from
GCScoreValues == {600, 800, 900}
GCMaxTravelValues == {60, 100}

\* the geocoded start: a coordinate pair that is no scored location
Home == GCMaxSpots + 1

\* a scored set as calculateScores leaves it: score descending, ranks by position
RankedSets(n) ==
    {[i \in 1..n |-> [id |-> i, score |-> s[i], rank |-> i]] :
        s \in {t \in [1..n -> GCScoreValues] : \A i \in 1..n : \A j \in i..n : t[i] >= t[j]}}

\* geo with the distances hd of the geocoded start to every scored location
WithHome(g, hd, n) ==
    [pq \in (Points(n) \cup {Home}) \X (Points(n) \cup {Home}) |->
        IF pq[1] = pq[2] THEN 0
        ELSE IF pq[1] = Home THEN hd[pq[2]]
        ELSE IF pq[2] = Home THEN hd[pq[1]]
        ELSE g[pq]]

\* route.push({day: 1, location: currentPoint, distance: 0, weather: ...})
GCSeedStop(spot) == [day |-> 1, location |-> spot, distance |-> 0]

\* the stop the great-circle optimizeRoute pushes: distance is Math.round of
\* calculateDistance(currentPoint, nextLocation.location)
GCNewStop(d, spot, current) ==
    [day |-> d, location |-> spot,
     distance |-> RoundDiv(calculateDistance(current, spot.id), 10)]

\* the candidate's distance measured from the seed instead of the current position
GCForwardDistanceFromSeed(current, candidate) ==
    calculateDistance(sortedSpots[1].id, candidate.id)

\* const distance = this.calculateDistance(currentPoint..., candidate...)
GCForwardDistance(current, candidate) == calculateDistance(current, candidate.id)

\* the loop of the great-circle findNextBestLocation from index i on
RECURSIVE GCBestFrom(_, _, _, _, _, _, _, _)
GCBestFrom(i, bestOption, bestScore, current, spots, seen, maxT, previousLocation) ==
    IF i > Len(spots) THEN bestOption
    ELSE IF i \in seen
         THEN GCBestFrom(i + 1, bestOption, bestScore, current, spots, seen, maxT,
                         previousLocation)
    ELSE LET distance == GCForwardDistance(current, spots[i])
             totalScore == TotalScore(spots[i], distance, maxT, previousLocation)
         IN  IF ExceedsBudget(distance, maxT)
             THEN GCBestFrom(i + 1, bestOption, bestScore, current, spots, seen, maxT,
                             previousLocation)
             ELSE IF Improves(totalScore, bestScore)
                  THEN GCBestFrom(i + 1, [location |-> spots[i], index |-> i], totalScore,
                                  current, spots, seen, maxT, previousLocation)
                  ELSE GCBestFrom(i + 1, bestOption, bestScore, current, spots, seen,
                                  maxT, previousLocation)

GCfindNextBestLocation(current, spots, seen, maxT, previousLocation) ==
    GCBestFrom(1, NoOption, InitialBestScore(maxT), current, spots, seen, maxT,
               previousLocation)

InitGC ==
    /\ \E n \in 0..GCMaxSpots :
         /\ weatherData \in RankedSets(n)
         /\ \E h \in [UpperPairs(n) -> DistValues] : geo = Symmetric(h, n)
    /\ currentRoute = <<>>
    /\ shownRoute = <<>>
    /\ Idle

\* buildRoute when geocodeLocation throws ('Geocoding failed', 'Location not
\* found'): the catch block alerts, finally hides the loading indicator
GCGeocodeFails ==
    /\ pc = "idle"
    /\ ~TooFewSpots(weatherData)
    /\ alertMsg' = "Error building route: Location not found"
    /\ pc' = "done"
    /\ UNCHANGED <<scoreVars, otherVars, weatherData, geo, loading, currentRoute, shownRoute, osrmCalled,
                   maxTravel, totalDays, startPoint, sortedSpots, route, visited,
                   currentPoint, day>>

\* buildRoute up to the first day of optimizeRoute, without a start address
GCBuildRouteStart ==
    /\ pc = "idle"
    /\ ~TooFewSpots(weatherData)
    /\ \E m \in GCMaxTravelValues, d \in 1..MaxDays :
         /\ maxTravel' = m
         /\ totalDays' = d
    /\ LET spots == SortByScoreDesc(weatherData)
       IN  /\ sortedSpots' = spots
           /\ currentPoint' = spots[1].id
           /\ route' = <<GCSeedStop(spots[1])>>
    /\ startPoint' = NoPoint
    /\ visited' = {1}
    /\ day' = FirstDay(NoPoint)
    /\ loading' = TRUE
    /\ pc' = "loop"
    /\ UNCHANGED <<scoreVars, otherVars, weatherData, geo, alertMsg, currentRoute, shownRoute, osrmCalled>>

\* buildRoute up to the first day of optimizeRoute, from a geocoded start address
GCBuildRouteStartFrom ==
    /\ pc = "idle"
    /\ ~TooFewSpots(weatherData)
    /\ \E m \in GCMaxTravelValues, d \in 1..MaxDays :
         /\ maxTravel' = m
         /\ totalDays' = d
    /\ \E hd \in [Points(Len(weatherData)) -> DistValues] :
         geo' = WithHome(geo, hd, Len(weatherData))
    /\ startPoint' = Home
    /\ currentPoint' = Home
    /\ sortedSpots' = SortByScoreDesc(weatherData)
    /\ route' = <<>>
    /\ visited' = {}
    /\ day' = FirstDay(Home)
    /\ loading' = TRUE
    /\ pc' = "loop"
    /\ UNCHANGED <<scoreVars, otherVars, weatherData, alertMsg, currentRoute, shownRoute, osrmCalled>>

\* one iteration of the day loop in which findNextBestLocation finds a stop
GCDayStop ==
    /\ pc = "loop"
    /\ LoopGuard
    /\ LET nextLocation == GCfindNextBestLocation(currentPoint, sortedSpots, visited,
                               maxTravel, PreviousLocation(route))
       IN  /\ nextLocation # NoOption
           /\ route' = Append(route, GCNewStop(day, nextLocation.location, currentPoint))
           /\ visited' = visited \cup {nextLocation.index}
           /\ currentPoint' = nextLocation.location.id
    /\ day' = day + 1
    /\ UNCHANGED <<scoreVars, otherVars, weatherData, geo, pc, alertMsg, loading, currentRoute, shownRoute,
                   osrmCalled, maxTravel, totalDays, startPoint, sortedSpots>>

\* the iteration in which findNextBestLocation returns null
GCDayBreak ==
    /\ pc = "loop"
    /\ LoopGuard
    /\ GCfindNextBestLocation(currentPoint, sortedSpots, visited, maxTravel,
                              PreviousLocation(route)) = NoOption
    /\ Returned(route)
    /\ UNCHANGED <<scoreVars, otherVars, weatherData, geo, osrmCalled, maxTravel, totalDays, startPoint,
                   sortedSpots, route, visited, currentPoint, day>>

NextGC ==
    \/ BuildRouteRefuse \/ GCGeocodeFails \/ GCBuildRouteStart \/ GCBuildRouteStartFrom
    \/ GCDayStop \/ GCDayBreak \/ LoopEnd

SpecGC == InitGC /\ [][NextGC]_vars

----------------------------------------------------------------------------
(* Claims about the planner that consults the road service (Spec) *)

NeedTwoSpots == "Need at least 2 weather spots to build a route"
CouldNotBuild == "Could not build a valid route with the given constraints"

\* the service's possible answers to the lookups of one findNextBestLocation call
DayReplies == [CandidatesInRange(currentPoint, sortedSpots, visited, maxTravel) -> RoadReplies]

\* the candidates of the current day that survive the distance filter
Survivors(replies) ==
    {i \in 1..Len(sortedSpots) :
        /\ i \notin visited
        /\ calculateDistance(currentPoint, sortedSpots[i].id) * 10 <= maxTravel * 120
        /\ calculateRoadDistance(replies[i], currentPoint, sortedSpots[i].id).distance
               <= maxTravel * 10}

\* the call optimizeRoute makes on the current day
Chosen(replies) ==
    findNextBestLocation(currentPoint, sortedSpots, visited, maxTravel,
                         PreviousLocation(route), replies)

\* a day of the loop is about to be evaluated
EvaluatingDay == pc = "loop" /\ day <= totalDays /\ Len(route) < Len(sortedSpots)

\* C1: no scored location appears in more than one stop of a route: the stops
\* are pairwise distinct locations, every stop's index is in visited, and
\* visited holds nothing else
C1_NoLocationTwice ==
    /\ \A i \in 1..Len(route) : \A j \in 1..Len(route) :
          i # j => route[i].location.id # route[j].location.id
    /\ \A k \in 1..Len(route) :
          \E i \in visited : sortedSpots[i].id = route[k].location.id
    /\ Cardinality(visited) = Len(route)
    /\ \A i \in 1..Len(currentRoute) : \A j \in 1..Len(currentRoute) :
          i # j => currentRoute[i].location.id # currentRoute[j].location.id

\* a route from an explicit start that holds every scored location, the
\* start's own location among them
C1_Witness ==
    /\ pc = "done" /\ startPoint # NoPoint
    /\ Len(currentRoute) >= 2 /\ Len(currentRoute) = Len(weatherData)
    /\ \E k \in 1..Len(currentRoute) : currentRoute[k].location.id = startPoint

\* C2: every stop after the seed is within the daily budget, both as evaluated
\* when findNextBestLocation selected it and as recorded on the stop (a recorded
\* distance within the budget is still within it after Math.round)
C2_StopsWithinBudget ==
    /\ EvaluatingDay =>
          \A replies \in DayReplies :
             Chosen(replies) # NoOption =>
                calculateRoadDistance(replies[Chosen(replies).index], currentPoint,
                                      Chosen(replies).location.id).distance <= maxTravel * 10
    /\ \A k \in 1..Len(route) :
          (startPoint # NoPoint \/ k > 1) => route[k].distance <= maxTravel

\* C4 as stated: the seed is the best location with day 1 and distance 0, the
\* days are numbered 1, 2, ... and the start coordinate is never a stop
C4_StartNeverAStop ==
    (sortedSpots # <<>> /\ startPoint # NoPoint) =>
        \A k \in 1..Len(route) : route[k].location.id # startPoint

\* C4, amended: without a start the first stop is the best-scoring location with
\* day 1 and distance 0 and the next day evaluated is 2; with a start no stop is
\* pushed for it before the loop (the route is empty when day 1 is evaluated);
\* the k-th stop carries day k and there are at most min(totalDays, N) stops
C4_SeedAndDayNumbers ==
    sortedSpots # <<>> =>
        /\ startPoint = NoPoint =>
              /\ Len(route) >= 1
              /\ route[1].day = 1 /\ route[1].distance = 0
              /\ \A i \in 1..Len(weatherData) :
                    route[1].location.score >= weatherData[i].score
              /\ (pc = "loop" /\ Len(route) = 1) => day = 2
        /\ startPoint # NoPoint =>
              /\ (pc = "loop" /\ day = 1) => route = <<>>
              /\ (pc = "loop" /\ route = <<>>) => day = 1
        /\ \A k \in 1..Len(route) : route[k].day = k
        /\ Len(route) <= totalDays
        /\ Len(route) <= Len(weatherData)

\* a finished route from an explicit start whose first stop, on day 1, is the
\* scored location at the start coordinate
C4_Witness ==
    /\ pc = "done" /\ startPoint # NoPoint /\ Len(currentRoute) = totalDays
    /\ totalDays = 2
    /\ currentRoute[1].location.id = startPoint /\ currentRoute[1].day = 1

\* C5: with fewer than 2 scored locations buildRoute only reports the error: no
\* road lookup, no optimizeRoute, no loading indicator, and the route held and
\* shown stay what they were
C5_RefusesBelowTwo ==
    Len(weatherData) < 2 =>
        /\ pc # "loop" /\ ~osrmCalled /\ ~loading
        /\ sortedSpots = <<>> /\ route = <<>>
        /\ currentRoute \in {<<>>, <<SeedStop(EarlierSpot)>>}
        /\ \A k \in 1..Len(currentRoute) :
              \A i \in 1..Len(weatherData) : currentRoute[k].location.id # weatherData[i].id
        /\ shownRoute = currentRoute
        /\ pc = "done" => alertMsg = NeedTwoSpots

\* the refusal with a single scored location while an earlier route is held
C5_Witness ==
    /\ pc = "done" /\ Len(weatherData) = 1 /\ alertMsg = NeedTwoSpots
    /\ currentRoute # <<>>

\* C6: when findNextBestLocation finds nothing on the first evaluated day the
\* route is empty and buildRoute reports that no route could be built, with an
\* explicit start and with a seeded route alike
C6_FirstDayInfeasibleIsEmpty ==
    (/\ pc = "done" /\ sortedSpots # <<>>
     /\ day <= totalDays /\ Len(route) < Len(sortedSpots)
     /\ day = (IF startPoint # NoPoint THEN 1 ELSE 2))
    => (route = <<>> /\ alertMsg = CouldNotBuild)

\* suitability of candidate i under the replies of the day, times 10 * maxTravel
Suitability(i, replies) ==
    LET distance == calculateRoadDistance(replies[i], currentPoint,
                                          sortedSpots[i].id).distance
        penalty == IF /\ PreviousLocation(route) # NoPoint
                      /\ calculateDistance(sortedSpots[i].id, PreviousLocation(route))
                            < distance
                   THEN 20 ELSE 0
    IN  sortedSpots[i].score * maxTravel + 30 * (10 * maxTravel - distance)
            - penalty * 10 * maxTravel

\* C7: among the survivors of the distance filter findNextBestLocation returns
\* the one of highest suitability, the first in score-descending order among equals
C7_BestSurvivorChosen ==
    EvaluatingDay =>
        \A replies \in DayReplies :
            Survivors(replies) # {} =>
                /\ Chosen(replies).index \in Survivors(replies)
                /\ \A i \in Survivors(replies) :
                      /\ Suitability(i, replies) <= Suitability(Chosen(replies).index, replies)
                      /\ Suitability(i, replies) = Suitability(Chosen(replies).index, replies)
                            => Chosen(replies).index <= i

\* C8: on every day on which a candidate survives the distance filter a stop is
\* found, whatever the scores and penalties
C8_SurvivorMeansStop ==
    EvaluatingDay =>
        \A replies \in DayReplies :
            Survivors(replies) # {} => Chosen(replies) # NoOption

----------------------------------------------------------------------------
(* Claims about the great-circle variant (SpecGC) *)

\* the example: A (score 90), B (score 80, 50 km from A), C (score 60, 50 km
\* from B, 90 km from A), maxTravelPerDayKm = 60, totalDays = 3, no start
GreedyExample ==
    /\ Len(weatherData) = 3
    /\ weatherData[1].score = 900 /\ weatherData[2].score = 800
    /\ weatherData[3].score = 600
    /\ geo[<<1, 2>>] = 500 /\ geo[<<2, 3>>] = 500 /\ geo[<<1, 3>>] = 900
    /\ maxTravel = 60 /\ totalDays = 3 /\ startPoint = NoPoint
    /\ sortedSpots # <<>>

\* C3: in the example the route is exactly day 1 = A (0 km), day 2 = B (50 km),
\* day 3 = C (50 km); and in general the walk goes on from the current position:
\* it ends before totalDays only when no unvisited location is within the
\* budget of the position it has reached
C3_GreedyWalkViaIntermediate ==
    /\ (GreedyExample /\ pc = "done") =>
          currentRoute = << [day |-> 1, location |-> weatherData[1], distance |-> 0],
                            [day |-> 2, location |-> weatherData[2], distance |-> 50],
                            [day |-> 3, location |-> weatherData[3], distance |-> 50] >>
    /\ (pc = "done" /\ sortedSpots # <<>> /\ Len(route) < totalDays) =>
          \A i \in 1..Len(sortedSpots) :
             i \notin visited => geo[<<currentPoint, sortedSpots[i].id>>] > maxTravel * 10

\* the example's run has ended with C, out of A's reach, as its third stop
C3_Witness ==
    /\ GreedyExample /\ pc = "done" /\ Len(currentRoute) = 3
    /\ currentRoute[3].location.id = 3
    /\ geo[<<currentRoute[1].location.id, 3>>] > maxTravel * 10

\* the stop before the current position, when the route has one
StopBeforeCurrent == IF Len(route) >= 2 THEN route[Len(route) - 1].location.id ELSE NoPoint

\* the unvisited candidates within the budget of the current position
GCSurvivors ==
    {i \in 1..Len(sortedSpots) :
        i \notin visited /\ geo[<<currentPoint, sortedSpots[i].id>>] <= maxTravel * 10}

\* C9: a candidate is penalised by 20 exactly when a previous stop exists and
\* the candidate is nearer to that stop than its forward distance from the
\* current position, so that the candidates behind the direction of travel
\* (from the previous stop to the current position) are the ones penalised
C9_PenaltyFlagsBacktracking ==
    (EvaluatingDay /\ Len(route) >= 2) =>
        \A i \in GCSurvivors :
            (DirectionPenalty(sortedSpots[i], PreviousLocation(route),
                              geo[<<currentPoint, sortedSpots[i].id>>]) = 20)
            <=> (geo[<<sortedSpots[i].id, StopBeforeCurrent>>]
                    < geo[<<currentPoint, sortedSpots[i].id>>])

----------------------------------------------------------------------------
(* The weather scorer: calculateScores and its helpers.                      *)
(* A quotient is kept exact as a fraction [n, d] with d > 0; the code         *)
(* computes in floating point.  Temperatures are whole degrees, rain whole    *)
(* millimetres, sunshine whole hours given in seconds, wind whole km/h.       *)

MaxPoints == 1
MaxForecastDays == 2

\* a null (or undefined) entry of a daily array
Missing == -9999

\* the days a forecast is made of: a perfect day, a storm, a day with every
\* value missing, and days between them with single values missing
DayKinds ==
    { [tmax |-> 25, tmin |-> 20, rain |-> 0, prob |-> 0, sun |-> 50400, wind |-> 0],
      [tmax |-> -25, tmin |-> -30, rain |-> 40, prob |-> 100, sun |-> 0, wind |-> 80],
      [tmax |-> Missing, tmin |-> Missing, rain |-> Missing, prob |-> Missing,
       sun |-> Missing, wind |-> Missing],
      [tmax |-> 18, tmin |-> 12, rain |-> 3, prob |-> 40, sun |-> 21600, wind |-> 15],
      [tmax |-> 18, tmin |-> 12, rain |-> Missing, prob |-> 40, sun |-> 21600, wind |-> 15],
      [tmax |-> 40, tmin |-> 30, rain |-> 0, prob |-> 10, sun |-> 46800, wind |-> 30],
      [tmax |-> Missing, tmin |-> 5, rain |-> 12, prob |-> Missing, sun |-> 7200, wind |-> 55],
      [tmax |-> 31, tmin |-> 24, rain |-> 1, prob |-> 75, sun |-> Missing, wind |-> Missing] }

\* data.daily of a response: parallel arrays, one entry per day
Daily(days) ==
    [time |-> [i \in 1..Len(days) |-> i],
     temperature_2m_max |-> [i \in 1..Len(days) |-> days[i].tmax],
     temperature_2m_min |-> [i \in 1..Len(days) |-> days[i].tmin],
     precipitation_sum |-> [i \in 1..Len(days) |-> days[i].rain],
     precipitation_probability_max |-> [i \in 1..Len(days) |-> days[i].prob],
     sunshine_duration |-> [i \in 1..Len(days) |-> days[i].sun],
     windspeed_10m_max |-> [i \in 1..Len(days) |-> days[i].wind]]

\* weather: null of a point whose fetch failed
NoWeather == [time |-> <<>>]

Forecasts ==
    {Daily(days) : days \in UNION {[1..n -> DayKinds] : n \in 1..MaxForecastDays}}

\* arr.filter(v => v !== null && v !== undefined)
RECURSIVE validValues(_)
validValues(arr) ==
    IF arr = <<>> THEN <<>>
    ELSE IF Head(arr) # Missing THEN <<Head(arr)>> \o validValues(Tail(arr))
         ELSE validValues(Tail(arr))

\* reduce((a, b) => a + b, 0)
RECURSIVE reduceSum(_)
reduceSum(arr) == IF arr = <<>> THEN 0 ELSE Head(arr) + reduceSum(Tail(arr))

\* average(arr)
average(arr) ==
    IF Len(validValues(arr)) > 0
    THEN [n |-> reduceSum(validValues(arr)), d |-> Len(validValues(arr))]
    ELSE [n |-> 0, d |-> 1]

\* sum(arr)
sum(arr) == reduceSum(validValues(arr))

Max(a, b) == IF a >= b THEN a ELSE b
Min(a, b) == IF a <= b THEN a ELSE b
Abs(a) == IF a >= 0 THEN a ELSE 0 - a

\* the mutant of calculateTempScore: the breakpoints taken as exclusive
calculateTempScoreExclusive(t) ==
    LET diff2 == Abs(2 * t.n - 45 * t.d)
    IN  IF diff2 < 5 * t.d THEN 100
        ELSE IF diff2 < 10 * t.d THEN 90
        ELSE IF diff2 < 20 * t.d THEN 70
        ELSE IF diff2 < 30 * t.d THEN 50
        ELSE IF diff2 < 40 * t.d THEN 30
        ELSE 10

\* calculateTempScore(temp), temp = t.n / t.d: the steps of |temp - 22.5|
calculateTempScore(t) ==
    LET diff2 == Abs(2 * t.n - 45 * t.d)    \* 2 * diff * t.d
    IN  IF diff2 <= 5 * t.d THEN 100
        ELSE IF diff2 <= 10 * t.d THEN 90
        ELSE IF diff2 <= 20 * t.d THEN 70
        ELSE IF diff2 <= 30 * t.d THEN 50
        ELSE IF diff2 <= 40 * t.d THEN 30
        ELSE 10

\* avgTemp = (avgTempMax + avgTempMin) / 2
AvgTemp(weather) ==
    LET hi == average(weather.temperature_2m_max)
        lo == average(weather.temperature_2m_min)
    IN  [n |-> hi.n * lo.d + lo.n * hi.d, d |-> 2 * hi.d * lo.d]

\* rainAmountScore = Math.max(0, 100 - avgRainPerDay * 10), avgRainPerDay =
\* totalRain / numDays
RainAmountScore(weather) ==
    [n |-> Max(0, 100 * Len(weather.time) - 10 * sum(weather.precipitation_sum)),
     d |-> Len(weather.time)]

\* rainChanceScore = Math.max(0, 100 - avgRainChance)
RainChanceScore(weather) ==
    LET c == average(weather.precipitation_probability_max)
    IN  [n |-> Max(0, 100 * c.d - c.n), d |-> c.d]

\* the mutant of SunScore: the cap at 100 left out
SunScoreUncapped(weather) ==
    [n |-> 100 * (sum(weather.sunshine_duration) \div 3600), d |-> 12 * Len(weather.time)]

\* sunScore = Math.min(100, (avgSunHours / 12) * 100), avgSunHours =
\* sum(sunshine_duration) / 3600 / numDays
SunScore(weather) ==
    [n |-> Min(100 * 12 * Len(weather.time),
               100 * (sum(weather.sunshine_duration) \div 3600)),
     d |-> 12 * Len(weather.time)]

\* the mutant of WindScore: the clamp at 0 left out
WindScoreUnclamped(weather) ==
    LET w == average(weather.windspeed_10m_max)
    IN  [n |-> 100 * w.d - 2 * w.n, d |-> w.d]

\* windScore = Math.max(0, 100 - avgWind * 2)
WindScore(weather) ==
    LET w == average(weather.windspeed_10m_max)
    IN  [n |-> Max(0, 100 * w.d - 2 * w.n), d |-> w.d]

\* score: Math.round(totalScore * 10) / 10 in tenths, totalScore being
\* 0.25 rainAmount + 0.25 rainChance + 0.30 sun + 0.15 temp + 0.05 wind:
\* 20 * totalScore is x / l below, and Math.round(y) is floor(y + 1/2)
Score(weather) ==
    LET ra == RainAmountScore(weather)
        rc == RainChanceScore(weather)
        su == SunScore(weather)
        wi == WindScore(weather)
        te == calculateTempScore(AvgTemp(weather))
        l  == ra.d * rc.d * su.d * wi.d
        x  == 5 * ra.n * (l \div ra.d) + 5 * rc.n * (l \div rc.d)
                + 6 * su.n * (l \div su.d) + 3 * te * l + wi.n * (l \div wi.d)
    IN  (x + l) \div (2 * l)

\* windSpeed: Math.round(avgWind * 10) / 10, in tenths of a km/h
WindSpeed(weather) ==
    LET w == average(weather.windspeed_10m_max)
    IN  RoundDiv(10 * w.n, w.d)

\* the loop of calculateScores: one result per point that has weather
RECURSIVE ScoredPoints(_)
ScoredPoints(points) ==
    IF points = <<>> THEN <<>>
    ELSE IF Head(points).weather = NoWeather THEN ScoredPoints(Tail(points))
         ELSE <<[id |-> Head(points).index, score |-> Score(Head(points).weather),
                 windSpeed |-> WindSpeed(Head(points).weather),
                 rank |-> 0]>> \o ScoredPoints(Tail(points))

\* calculateScores(weatherData): score, sort by score (highest first), add rank
calculateScores(points) == AssignRanks(SortByScoreDesc(ScoredPoints(points)))

\* what fetchWeatherForGrid can return for n grid points
FetchResults(n) ==
    {[i \in 1..n |-> [index |-> i, weather |-> w[i]]] :
        w \in [1..n -> Forecasts \cup {NoWeather}]}

\* the location ids of a scored set, in its order
Ids(data) == [i \in 1..Len(data) |-> data[i].id]

\* displayInTable() and displayOnMap(): a row and a marker per location
Redisplay(data) == table' = Ids(data) /\ markers' = Ids(data)

\* displayResults(): the table and the markers, and with 2 locations or more
\* populateStartLocationDropdown()
displayResults(data) ==
    /\ Redisplay(data)
    /\ dropdown' = IF Len(data) >= 2 THEN Ids(data) ELSE dropdown

InitScore ==
    /\ \E n \in 0..MaxPoints : fetched \in FetchResults(n)
    /\ Untouched
    /\ searchPc = "fetched"
    /\ weatherData = <<>>
    /\ geo = <<>>
    /\ currentRoute = <<>> /\ shownRoute = <<>>
    /\ pc = "idle" /\ alertMsg = "" /\ loading = TRUE /\ osrmCalled = FALSE
    /\ maxTravel = 0 /\ totalDays = 0 /\ startPoint = NoPoint
    /\ sortedSpots = <<>> /\ route = <<>> /\ visited = {}
    /\ currentPoint = NoPoint /\ day = 0

\* handleSearch after the fetch: this.weatherData = this.calculateScores(weatherData),
\* displayResults(), and finally showLoading(false)
ScoreResults ==
    /\ searchPc = "fetched"
    /\ weatherData' = calculateScores(fetched)
    /\ displayResults(weatherData')
    /\ searchPc' = "scored"
    /\ loading' = FALSE
    /\ UNCHANGED <<sortVars, fetchVars, callVars, gridVars, batchVars, searches, fetched, geo, pc, alertMsg, currentRoute, shownRoute, osrmCalled,
                   maxTravel, totalDays, startPoint, sortedSpots, route, visited,
                   currentPoint, day>>

NextScore == ScoreResults

SpecScore == InitScore /\ [][NextScore]_vars

\* C10: the composite score of every scored point lies in [0, 100]
C10_ScoreWithinRange ==
    \A i \in 1..Len(weatherData) :
        weatherData[i].score >= 0 /\ weatherData[i].score <= 1000

\* a forecast has been scored with the full 100 points
C10_Witness ==
    /\ searchPc = "scored" /\ Len(fetched) >= 1
    /\ \E i \in 1..Len(weatherData) : weatherData[i].score = 1000

\* the weather the scored location at position i was computed from
WeatherOf(i) == fetched[weatherData[i].id].weather

\* 20 * M times the weighted sum of the five sub-scores as the formula states
\* them, M = 12 * D * cd * wd being the common denominator (D the series
\* length, cd and wd the numbers of valid rain-chance and wind entries)
FormulaScore(weather) ==
    LET D  == Len(weather.time)
        R  == sum(weather.precipitation_sum)
        S  == sum(weather.sunshine_duration) \div 3600
        c  == average(weather.precipitation_probability_max)
        w  == average(weather.windspeed_10m_max)
        T  == calculateTempScore(AvgTemp(weather))
        M  == 12 * D * c.d * w.d
        X  == 5 * Max(0, 100 * D - 10 * R) * 12 * c.d * w.d
                + 5 * Max(0, 100 * c.d - c.n) * 12 * D * w.d
                + 6 * Min(1200 * D, 100 * S) * c.d * w.d
                + 3 * T * M
                + Max(0, 100 * w.d - 2 * w.n) * 12 * D * c.d
    IN  (X + M) \div (2 * M)

\* C11: the score of every scored point is 0.25 rainAmountScore + 0.25
\* rainChanceScore + 0.30 sunScore + 0.15 tempScore + 0.05 windScore rounded to
\* one decimal, with rainAmountScore = max(0, 100 - 10 totalRain / D),
\* rainChanceScore = max(0, 100 - avgRainChance), sunScore = min(100, 100
\* sunHoursPerDay / 12) and windScore = max(0, 100 - 2 avgWind)
C11_ScoreIsWeightedSum ==
    searchPc = "scored" =>
        \A i \in 1..Len(weatherData) : weatherData[i].score = FormulaScore(WeatherOf(i))

\* a scored point on which the rain clamp and the wind clamp both act
C11_Witness ==
    /\ searchPc = "scored"
    /\ \E i \in 1..Len(weatherData) :
          /\ 10 * sum(WeatherOf(i).precipitation_sum) > 100 * Len(WeatherOf(i).time)
          /\ 2 * average(WeatherOf(i).windspeed_10m_max).n
                > 100 * average(WeatherOf(i).windspeed_10m_max).d

----------------------------------------------------------------------------
(* calculateTempScore called on its own (SpecTemp) *)

\* the temperatures it is called with, in half degrees: -30.0 to 120.0
TempHalves == -60..240

InitTemp ==
    /\ callArgs \in {<<h>> : h \in TempHalves}
    /\ callResult = <<>>
    /\ SortFresh /\ FetchIdle /\ NoGrid /\ NoExt /\ SearchIdle /\ RouteIdle /\ NoData

\* calculateTempScore(temp)
CallCalculateTempScore ==
    /\ callResult = <<>>
    /\ callResult' = <<calculateTempScore([n |-> callArgs[1], d |-> 2])>>
    /\ UNCHANGED <<routeVars, scoreVars, sortVars, extVars, fetchVars, gridVars, callArgs>>

NextTemp == CallCalculateTempScore

SpecTemp == InitTemp /\ [][NextTemp]_vars

\* the step function of the claim, of d = |temp - 22.5| in half degrees
StepOfDiff(d2) ==
    IF d2 <= 5 THEN 100
    ELSE IF d2 <= 10 THEN 90
    ELSE IF d2 <= 20 THEN 70
    ELSE IF d2 <= 30 THEN 50
    ELSE IF d2 <= 40 THEN 30
    ELSE 10

\* C12: calculateTempScore is the step function of d = |temp - 22.5| with
\* inclusive upper breakpoints 2.5, 5, 10, 15, 20 and values 100, 90, 70, 50,
\* 30, 10; 22.5, 20 and 25 give 100, 15.5 and 29.5 give 70, 100 gives 10
C12_TempScoreSteps ==
    callResult # <<>> =>
        /\ callResult[1] = StepOfDiff(Abs(callArgs[1] - 45))
        /\ callArgs[1] \in {45, 40, 50} => callResult[1] = 100
        /\ callArgs[1] \in {31, 59} => callResult[1] = 70
        /\ callArgs[1] = 200 => callResult[1] = 10

\* the call at 20 degrees, on the first breakpoint
C12_Witness == callArgs = <<40>> /\ callResult = <<100>>

----------------------------------------------------------------------------
(* Missing entries (SpecScore) *)

\* the days on which the series arr has a value
RECURSIVE ValidDays(_, _)
ValidDays(arr, i) ==
    IF i > Len(arr) THEN <<>>
    ELSE (IF arr[i] # Missing THEN <<i>> ELSE <<>>) \o ValidDays(arr, i + 1)

\* the forecast with the days removed on which the series arr has no value
WithoutMissing(weather, arr) ==
    LET kept == ValidDays(arr, 1)
    IN  [f \in DOMAIN weather |-> [j \in 1..Len(kept) |-> weather[f][kept[j]]]]

SameFraction(a, b) == a.n * b.d = b.n * a.d

\* C13: a missing entry of a series is left out of every aggregate taken from
\* that series: the rain total, the rain per day and rainAmountScore are those
\* of the forecast with the days of missing precipitation removed, and likewise
\* the sunshine, temperature, rain-chance and wind aggregates
C13_MissingEntriesExcluded ==
    searchPc = "scored" =>
        \A i \in 1..Len(weatherData) :
            LET w    == WeatherOf(i)
                rain == WithoutMissing(w, w.precipitation_sum)
                sun  == WithoutMissing(w, w.sunshine_duration)
                hi   == WithoutMissing(w, w.temperature_2m_max)
                lo   == WithoutMissing(w, w.temperature_2m_min)
                prob == WithoutMissing(w, w.precipitation_probability_max)
                wind == WithoutMissing(w, w.windspeed_10m_max)
            IN  /\ Len(rain.time) > 0 =>
                      /\ sum(w.precipitation_sum) = sum(rain.precipitation_sum)
                      /\ SameFraction(RainAmountScore(w), RainAmountScore(rain))
                /\ Len(sun.time) > 0 =>
                      /\ sum(w.sunshine_duration) = sum(sun.sunshine_duration)
                      /\ SameFraction(SunScore(w), SunScore(sun))
                /\ Len(hi.time) > 0 =>
                      SameFraction(average(w.temperature_2m_max),
                                   average(hi.temperature_2m_max))
                /\ Len(lo.time) > 0 =>
                      SameFraction(average(w.temperature_2m_min),
                                   average(lo.temperature_2m_min))
                /\ Len(prob.time) > 0 =>
                      SameFraction(RainChanceScore(w), RainChanceScore(prob))
                /\ Len(wind.time) > 0 =>
                      SameFraction(WindScore(w), WindScore(wind))

----------------------------------------------------------------------------
(* Searches and handleSort (SpecSort) *)

MaxSortPoints == 2

\* the forecasts of the searches: a fine day and a windy, wetter day
SortForecasts ==
    { Daily(<<[tmax |-> 25, tmin |-> 20, rain |-> 0, prob |-> 0, sun |-> 50400, wind |-> 0]>>),
      Daily(<<[tmax |-> 18, tmin |-> 12, rain |-> 3, prob |-> 40, sun |-> 21600, wind |-> 15]>>) }

\* what fetchWeatherForGrid can return for the grid of a search
SortFetchResults ==
    UNION {{[i \in 1..n |-> [index |-> i, weather |-> w[i]]] :
               w \in [1..n -> SortForecasts \cup {NoWeather}]} : n \in 0..MaxSortPoints}

\* the columns of the table that handleSort is called with
Columns == {"score", "windSpeed"}

InitSort == Untouched /\ SearchIdle /\ RouteIdle /\ NoData

\* handleSearch up to the return of fetchWeatherForGrid
StartSearch ==
    /\ searchPc \in {"idle", "scored"}
    /\ fetched' \in SortFetchResults
    /\ searchPc' = "fetched"
    /\ loading' = TRUE
    /\ UNCHANGED <<otherVars, weatherData, geo, pc, alertMsg, currentRoute, shownRoute,
                   osrmCalled, maxTravel, totalDays, startPoint, sortedSpots, route,
                   visited, currentPoint, day>>

\* the direction handleSort sorts in: toggled on the current column, else 'desc'
NextDirection(column) ==
    IF currentSortColumn = column
    THEN (IF currentSortDirection = "asc" THEN "desc" ELSE "asc")
    ELSE "desc"

\* a < b ? 1 : -1 (descending) or a > b ? 1 : -1 (ascending) puts x before y
InOrder(x, y, column, direction) ==
    IF direction = "asc" THEN x[column] <= y[column] ELSE x[column] >= y[column]

Orderings(n) == {f \in [1..n -> 1..n] : \A i \in 1..n : \E j \in 1..n : f[j] = i}

\* the orders this.weatherData.sort(...) can leave: the comparator answers -1
\* for two equal values in either order, so it is not a consistent comparator
\* and where equal values end up is left to the engine
SortOutcomes(data, column, direction) ==
    {r \in {[i \in 1..Len(data) |-> data[f[i]]] : f \in Orderings(Len(data))} :
        \A i \in 1..Len(r) : \A j \in i..Len(r) : InOrder(r[i], r[j], column, direction)}

\* handleSort(column)
handleSort ==
    \E column \in Columns :
        /\ currentSortColumn' = column
        /\ currentSortDirection' = NextDirection(column)
        /\ \E sorted \in SortOutcomes(weatherData, column, NextDirection(column)) :
              /\ weatherData' = AssignRanks(sorted)
              /\ Redisplay(weatherData')
        /\ UNCHANGED <<scoreVars, fetchVars, callVars, batchVars, dropdown, searches, gridVars, geo, pc, alertMsg, loading,
                       currentRoute, shownRoute, osrmCalled, maxTravel, totalDays,
                       startPoint, sortedSpots, route, visited, currentPoint, day>>

NextSort == StartSearch \/ ScoreResults \/ handleSort

SpecSort == InitSort /\ [][NextSort]_vars

\* the points of a fetch result that have weather
WithWeather(points) == {i \in 1..Len(points) : points[i].weather # NoWeather}

\* C14: after any sequence of searches and handleSort calls the location at
\* position i (counted from 0) has rank i + 1, so the ranks are exactly 1..N;
\* and calculateScores yields one scored location per point with weather,
\* in score-descending order
C14_RanksFollowPositions ==
    /\ \A i \in 1..Len(weatherData) : weatherData[i].rank = i
    /\ \A i \in 1..Len(weatherData) : \A j \in 1..Len(weatherData) :
          i # j => weatherData[i].id # weatherData[j].id
    /\ searchPc = "fetched" =>
          LET ranked == calculateScores(fetched)
          IN  /\ Len(ranked) = Cardinality(WithWeather(fetched))
              /\ \A i \in WithWeather(fetched) :
                    \E k \in 1..Len(ranked) : ranked[k].id = fetched[i].index
              /\ \A k \in 1..Len(ranked) : \A l \in k..Len(ranked) :
                    ranked[k].score >= ranked[l].score
              /\ \A k \in 1..Len(ranked) : ranked[k].rank = k

\* the table re-sorted by wind speed: the lower score now comes first
C14_Witness ==
    /\ currentSortColumn = "windSpeed" /\ currentSortDirection = "desc"
    /\ Len(weatherData) = 2
    /\ weatherData[1].score < weatherData[2].score
    /\ weatherData[1].rank = 1 /\ weatherData[2].rank = 2

\* weatherData is in score-descending order
ScoreDescending(data) ==
    \A i \in 1..Len(data) : \A j \in i..Len(data) : data[i].score >= data[j].score

\* C15: re-sorting a score-descending set by score descending and assigning
\* ranks changes nothing, equal scores included: neither the sort of
\* calculateScores and optimizeRoute nor handleSort on the score column in
\* descending direction
C15_ResortChangesNothing ==
    ScoreDescending(weatherData) =>
        /\ AssignRanks(SortByScoreDesc(weatherData)) = weatherData
        /\ NextDirection("score") = "desc" =>
              \A sorted \in SortOutcomes(weatherData, "score", "desc") :
                  AssignRanks(sorted) = weatherData

----------------------------------------------------------------------------
(* The grid: generateGridFromCenter, generateGridFromShape, pointInPolygon   *)
(* (SpecGrid).  A coordinate is an exact quotient n / d, or NaN; the code     *)
(* computes in floating point.  The half extents latDegrees and lonDegrees    *)
(* of the centre mode are drawn directly rather than computed from radiusKm.  *)

MaxDim == 3

\* NaN, and the number n / d (d > 0)
NaN == [nan |-> TRUE, n |-> 0, d |-> 1]
Num(n, d) == [nan |-> FALSE, n |-> n, d |-> d]

\* Math.sqrt(gridSize), for the perfect squares gridSize is drawn from
Sqrt(gridSize) == CHOOSE r \in 0..gridSize : r * r = gridSize

\* the mutant of LatticeCoord: the step taken as span / gridDim
LatticeCoordByDim(low, span, k, gridDim) == Num(low * gridDim + k * span, gridDim)

\* low + k * step with step = span / (gridDim - 1).  For gridDim = 1 the step
\* is span / 0, Infinity (NaN for span = 0), k is 0, 0 * Infinity is NaN and so
\* is low + NaN
LatticeCoord(low, span, k, gridDim) ==
    IF gridDim = 1 THEN NaN
    ELSE Num(low * (gridDim - 1) + k * span, gridDim - 1)

\* generateGridFromCenter: point k (from 1) is the one of loop indices
\* i = (k - 1) \div gridDim and j = (k - 1) % gridDim, pushed with index
\* points.length
generateGridFromCenter(centerLat, centerLon, latDegrees, lonDegrees, gridSize) ==
    LET gridDim == Sqrt(gridSize)
    IN  [k \in 1..(gridDim * gridDim) |->
            [lat |-> LatticeCoord(centerLat - latDegrees, 2 * latDegrees,
                                  (k - 1) \div gridDim, gridDim),
             lon |-> LatticeCoord(centerLon - lonDegrees, 2 * lonDegrees,
                                  (k - 1) % gridDim, gridDim),
             index |-> k - 1]]

\* a < b of two coordinates: false when either is NaN
Less(a, b) == ~a.nan /\ ~b.nan /\ a.n * b.d < b.n * a.d

\* ((yi > point.lng) !== (yj > point.lng))
\*     && (point.lat < (xj - xi) * (point.lng - yi) / (yj - yi) + xi)
\* for the vertices vi, vj (whole numbers) and the point
Intersect(point, vi, vj) ==
    /\ Less(point.lng, Num(vi.lng, 1)) # Less(point.lng, Num(vj.lng, 1))
    /\ ~point.lat.nan
    /\ LET dy  == vj.lng - vi.lng
           lhs == (point.lat.n - vi.lat * point.lat.d) * point.lng.d * dy
           rhs == (vj.lat - vi.lat) * (point.lng.n - vi.lng * point.lng.d) * point.lat.d
       IN  IF dy > 0 THEN lhs < rhs ELSE lhs > rhs

\* the loop of pointInPolygon from vertex i on, j being the vertex before i
\* (the last vertex for the first)
RECURSIVE InsideFrom(_, _, _, _)
InsideFrom(i, inside, point, latlngs) ==
    IF i > Len(latlngs) THEN inside
    ELSE LET j == IF i = 1 THEN Len(latlngs) ELSE i - 1
         IN  InsideFrom(i + 1,
                        IF Intersect(point, latlngs[i], latlngs[j]) THEN ~inside ELSE inside,
                        point, latlngs)

\* the mutant of pointInPolygon: the edge from the last vertex back to the
\* first left out
pointInPolygonOpenRing(point, latlngs) == InsideFrom(2, FALSE, point, latlngs)

\* pointInPolygon(point, polygon), latlngs = polygon.getLatLngs()[0]
pointInPolygon(point, latlngs) == InsideFrom(1, FALSE, point, latlngs)

Vertex(lat, lng) == [lat |-> lat, lng |-> lng]

\* the ring of an L.Rectangle: south-west, north-west, north-east, south-east
RectangleRing(south, west, north, east) ==
    <<Vertex(south, west), Vertex(north, west), Vertex(north, east), Vertex(south, east)>>

\* the shapes the draw control creates (polygon: true, rectangle: true)
Shapes ==
    { [kind |-> "rectangle", latlngs |-> RectangleRing(0, 0, 2, 4)],
      [kind |-> "rectangle", latlngs |-> RectangleRing(-3, 5, 1, 6)],
      [kind |-> "polygon", latlngs |-> <<Vertex(0, 0), Vertex(0, 1), Vertex(1, 1), Vertex(1, 0)>>],
      [kind |-> "polygon", latlngs |-> <<Vertex(0, 0), Vertex(6, 0), Vertex(0, 6)>>],
      [kind |-> "polygon",
       latlngs |-> <<Vertex(0, 0), Vertex(0, 4), Vertex(2, 4), Vertex(2, 2),
                     Vertex(4, 2), Vertex(4, 0)>>] }

NoShape == [kind |-> "none", latlngs |-> <<>>]

\* shape instanceof L.Polygon: L.Rectangle extends L.Polygon, so it holds of
\* the rectangles as well
InstanceOfPolygon(shape) == shape.kind \in {"polygon", "rectangle"}

\* shape.getBounds()
MinOf(S) == CHOOSE x \in S : \A y \in S : x <= y
MaxOf(S) == CHOOSE x \in S : \A y \in S : x >= y
getSouth(shape) == MinOf({shape.latlngs[k].lat : k \in 1..Len(shape.latlngs)})
getNorth(shape) == MaxOf({shape.latlngs[k].lat : k \in 1..Len(shape.latlngs)})
getWest(shape) == MinOf({shape.latlngs[k].lng : k \in 1..Len(shape.latlngs)})
getEast(shape) == MaxOf({shape.latlngs[k].lng : k \in 1..Len(shape.latlngs)})

\* the lattice point of loop indices i, j over the bounds of the shape
ShapeLatticePoint(shape, i, j, gridDim) ==
    [lat |-> LatticeCoord(getSouth(shape), getNorth(shape) - getSouth(shape), i, gridDim),
     lng |-> LatticeCoord(getWest(shape), getEast(shape) - getWest(shape), j, gridDim)]

\* the loops of generateGridFromShape from lattice point k (from 0) on, points
\* being what has been pushed so far
RECURSIVE ShapeGridFrom(_, _, _, _)
ShapeGridFrom(k, points, shape, gridDim) ==
    IF k >= gridDim * gridDim THEN points
    ELSE LET point == ShapeLatticePoint(shape, k \div gridDim, k % gridDim, gridDim)
         IN  IF InstanceOfPolygon(shape) /\ ~pointInPolygon(point, shape.latlngs)
             THEN ShapeGridFrom(k + 1, points, shape, gridDim)
             ELSE ShapeGridFrom(k + 1,
                                Append(points, [lat |-> point.lat, lon |-> point.lng,
                                                index |-> Len(points)]),
                                shape, gridDim)

\* generateGridFromShape(shape, gridSize)
generateGridFromShape(shape, gridSize) == ShapeGridFrom(0, <<>>, shape, Sqrt(gridSize))

\* the grid sizes asked for: the squares of 1..MaxDim
GridSizes == {r * r : r \in 1..MaxDim}

\* the centres and half extents of the centre mode
Centers == {<<0, 0>>, <<48, -16>>}
HalfExtents == {<<2, 3>>, <<4, 4>>}

\* the points pointInPolygon is called with on its own: halves from -0.5 to 2.5
ProbeCoords == {Num(h, 2) : h \in -1..5}

InitGrid == Untouched /\ SearchIdle /\ RouteIdle /\ NoData

\* handleSearch in location mode, up to the grid (the location geocoded)
SearchFromCenter ==
    /\ searchPc = "idle" /\ callArgs = <<>>
    /\ \E c \in Centers, e \in HalfExtents, gridSize \in GridSizes :
          /\ searchInput' = [mode |-> "location", gridSize |-> gridSize,
                             centerLat |-> c[1], centerLon |-> c[2],
                             latDegrees |-> e[1], lonDegrees |-> e[2], shape |-> NoShape]
          /\ gridPoints' = generateGridFromCenter(c[1], c[2], e[1], e[2], gridSize)
    /\ loading' = TRUE
    /\ searchPc' = "grid"
    /\ UNCHANGED <<sortVars, extVars, fetchVars, callVars, weatherRequests, fetched, weatherData,
                   geo, pc, alertMsg, currentRoute, shownRoute, osrmCalled, maxTravel,
                   totalDays, startPoint, sortedSpots, route, visited, currentPoint, day>>

\* handleSearch in draw mode, up to the grid
SearchFromShape ==
    /\ searchPc = "idle" /\ callArgs = <<>>
    /\ \E shape \in Shapes, gridSize \in GridSizes :
          /\ searchInput' = [mode |-> "draw", gridSize |-> gridSize,
                             centerLat |-> 0, centerLon |-> 0,
                             latDegrees |-> 0, lonDegrees |-> 0, shape |-> shape]
          /\ gridPoints' = generateGridFromShape(shape, gridSize)
    /\ loading' = TRUE
    /\ searchPc' = "grid"
    /\ UNCHANGED <<sortVars, extVars, fetchVars, callVars, weatherRequests, fetched, weatherData,
                   geo, pc, alertMsg, currentRoute, shownRoute, osrmCalled, maxTravel,
                   totalDays, startPoint, sortedSpots, route, visited, currentPoint, day>>

\* handleSearch in draw mode with no shape drawn: the alert, and finally
\* showLoading(false)
SearchWithoutShape ==
    /\ searchPc = "idle" /\ callArgs = <<>>
    /\ \E gridSize \in GridSizes :
          searchInput' = [mode |-> "draw", gridSize |-> gridSize,
                          centerLat |-> 0, centerLon |-> 0,
                          latDegrees |-> 0, lonDegrees |-> 0, shape |-> NoShape]
    /\ alertMsg' = "Please draw an area on the map first"
    /\ searchPc' = "refused"
    /\ UNCHANGED <<sortVars, extVars, fetchVars, callVars, gridPoints, weatherRequests, fetched,
                   weatherData, geo, pc, loading, currentRoute, shownRoute, osrmCalled,
                   maxTravel, totalDays, startPoint, sortedSpots, route, visited,
                   currentPoint, day>>

\* fetchWeatherForGrid: a forecast request for every grid point
RequestWeather ==
    /\ searchPc = "grid"
    /\ weatherRequests' = [k \in 1..Len(gridPoints) |->
                              [lat |-> gridPoints[k].lat, lon |-> gridPoints[k].lon]]
    /\ searchPc' = "fetching"
    /\ UNCHANGED <<sortVars, extVars, fetchVars, callVars, searchInput, gridPoints, fetched,
                   weatherData, geo, pc, alertMsg, loading, currentRoute, shownRoute,
                   osrmCalled, maxTravel, totalDays, startPoint, sortedSpots, route,
                   visited, currentPoint, day>>

\* pointInPolygon called on its own
CallPointInPolygon ==
    /\ searchPc = "idle" /\ callArgs = <<>>
    /\ \E lat \in ProbeCoords, lng \in ProbeCoords, shape \in Shapes :
          /\ callArgs' = <<[lat |-> lat, lng |-> lng], shape.latlngs>>
          /\ callResult' = <<pointInPolygon([lat |-> lat, lng |-> lng], shape.latlngs)>>
    /\ UNCHANGED <<routeVars, scoreVars, sortVars, extVars, fetchVars, gridVars>>

NextGrid ==
    \/ SearchFromCenter \/ SearchFromShape \/ SearchWithoutShape
    \/ RequestWeather \/ CallPointInPolygon

SpecGrid == InitGrid /\ [][NextGrid]_vars

\* a grid has been generated in location mode for a grid size of 4 or more
CenterGridMade ==
    /\ searchPc \in {"grid", "fetching"}
    /\ searchInput.mode = "location" /\ searchInput.gridSize >= 4

\* the grid point of lattice row i and column j (from 0)
LatticeAt(i, j) == gridPoints[i * Sqrt(searchInput.gridSize) + j + 1]

\* C16: for a perfect-square gridSize >= 4 generateGridFromCenter returns
\* exactly gridSize points indexed 0..gridSize-1 in generation order, a dim x
\* dim lattice (the latitude set by the row, the longitude by the column)
\* symmetric about the centre: the points (i, j) and (dim-1-i, dim-1-j) average
\* to the centre, and every point is within latDegrees / lonDegrees of it
C16_CenterGridIsSymmetricLattice ==
    CenterGridMade =>
        LET dim == Sqrt(searchInput.gridSize)
            cLat == searchInput.centerLat
            cLon == searchInput.centerLon
        IN  /\ Len(gridPoints) = searchInput.gridSize
            /\ \A k \in 1..Len(gridPoints) : gridPoints[k].index = k - 1
            /\ \A i \in 0..(dim - 1) : \A j \in 0..(dim - 1) :
                  LET a == LatticeAt(i, j)
                      b == LatticeAt(dim - 1 - i, dim - 1 - j)
                  IN  /\ ~a.lat.nan /\ ~a.lon.nan
                      /\ a.lat = LatticeAt(i, 0).lat /\ a.lon = LatticeAt(0, j).lon
                      /\ a.lat.d = b.lat.d /\ a.lat.n + b.lat.n = 2 * cLat * a.lat.d
                      /\ a.lon.d = b.lon.d /\ a.lon.n + b.lon.n = 2 * cLon * a.lon.d
                      /\ Abs(a.lat.n - cLat * a.lat.d) <= searchInput.latDegrees * a.lat.d
                      /\ Abs(a.lon.n - cLon * a.lon.d) <= searchInput.lonDegrees * a.lon.d
                      /\ i > 0 => Less(LatticeAt(i - 1, j).lat, a.lat)
                      /\ j > 0 => Less(LatticeAt(i, j - 1).lon, a.lon)

\* a 3 x 3 grid around a centre off the origin
C16_Witness ==
    /\ CenterGridMade /\ searchInput.gridSize = 9 /\ searchInput.centerLat = 48
    /\ Len(gridPoints) = 9
    /\ gridPoints[5].lat = Num(96, 2) /\ gridPoints[5].lon = Num(-32, 2)

\* C17: a request with gridSize = 1 is rejected in both modes: no grid point,
\* no weather request, no point with NaN coordinates
C17_DimensionOneRejected ==
    (searchInput # <<>> /\ searchInput.gridSize = 1
       /\ (searchInput.mode = "location" \/ searchInput.shape # NoShape)) =>
        /\ gridPoints = <<>>
        /\ weatherRequests = <<>>
        /\ searchPc \notin {"grid", "fetching"}

\* C18: in shape mode a rectangle keeps all dim x dim lattice points, those on
\* its edges and corners included, indexed 0..dim*dim-1; and whatever the shape,
\* the K points kept are indexed 0..K-1 in generation order
C18_RectangleKeepsLattice ==
    (searchPc \in {"grid", "fetching"} /\ searchInput.mode = "draw"
       /\ searchInput.gridSize >= 4) =>
        LET dim == Sqrt(searchInput.gridSize)
        IN  /\ \A k \in 1..Len(gridPoints) : gridPoints[k].index = k - 1
            /\ searchInput.shape.kind = "rectangle" =>
                  /\ Len(gridPoints) = dim * dim
                  /\ \A k \in 1..Len(gridPoints) :
                        LET at == ShapeLatticePoint(searchInput.shape, (k - 1) \div dim,
                                                    (k - 1) % dim, dim)
                        IN  gridPoints[k].lat = at.lat /\ gridPoints[k].lon = at.lng

\* the edges of the ring, the one from the last vertex back to the first
\* included, that a ray from the point crosses
CrossedEdges(point, latlngs) ==
    {i \in 1..Len(latlngs) :
        Intersect(point, latlngs[i], latlngs[IF i = 1 THEN Len(latlngs) ELSE i - 1])}

UnitSquare == <<Vertex(0, 0), Vertex(0, 1), Vertex(1, 1), Vertex(1, 0)>>

\* C19: pointInPolygon returns true exactly when the ray from the point crosses
\* an odd number of edges of the ring, the closing edge included; for the unit
\* square (0,0),(0,1),(1,1),(1,0) the point (0.5,0.5) is inside, (2,2) outside
C19_EvenOddRule ==
    callResult # <<>> =>
        /\ callResult[1] = (Cardinality(CrossedEdges(callArgs[1], callArgs[2])) % 2 = 1)
        /\ (callArgs[2] = UnitSquare /\ callArgs[1] = [lat |-> Num(1, 2), lng |-> Num(1, 2)])
              => callResult[1] = TRUE
        /\ (callArgs[2] = UnitSquare /\ callArgs[1] = [lat |-> Num(4, 2), lng |-> Num(4, 2)])
              => callResult[1] = FALSE

\* the call on the unit square with (0.5, 0.5), found inside
C19_Witness ==
    /\ callArgs = <<[lat |-> Num(1, 2), lng |-> Num(1, 2)], UnitSquare>>
    /\ callResult = <<TRUE>>

----------------------------------------------------------------------------
(* fetchWeatherForPoint: the requests of the points of one batch (SpecFetch) *)

MaxFetchPoints == 2

\* what a fetch() of the forecast can come to: a forecast, a rate-limit
\* response, another error status, a rejected fetch, a body that is no JSON
Responses == {"ok", "429", "500", "rejected", "badjson"}

\* the mutant of MayRetry: one retry more
MayRetryOnceMore(response, count) == response = "429" /\ count <= 3

\* response.status === 429 && retryCount < 3
MayRetry(response, count) == response = "429" /\ count < 3

\* Math.pow(2, retryCount) * 1000
WaitTime(count) == (2 ^ count) * 1000

\* the mutant of ReturnedWeather: the forecast whatever the response
ReturnedWeatherAlways(response) == "daily"

\* the weather of the object returned once no retry follows: data.daily, or
\* null from the catch block (fetch rejected, !response.ok, json() rejected)
ReturnedWeather(response) == IF response = "ok" THEN "daily" ELSE "null"

InitFetch ==
    /\ \E n \in 1..MaxFetchPoints :
          /\ retryCount = [p \in 1..n |-> 0]
          /\ requests = [p \in 1..n |-> <<>>]
          /\ slept = [p \in 1..n |-> <<>>]
          /\ fetchPc = [p \in 1..n |-> "call"]
          /\ pointWeather = [p \in 1..n |-> "none"]
    /\ SortFresh /\ NoCall /\ NoGrid /\ NoExt /\ RouteIdle /\ NoData
    /\ fetched = <<>> /\ searchPc = "fetching"

\* one call of fetchWeatherForPoint for point p: the request, and either the
\* wait and the recursive call or the return
FetchAttempt ==
    \E p \in DOMAIN fetchPc, response \in Responses :
        /\ fetchPc[p] = "call"
        /\ requests' = [requests EXCEPT ![p] = Append(@, response)]
        /\ IF MayRetry(response, retryCount[p])
           THEN /\ slept' = [slept EXCEPT ![p] = Append(@, WaitTime(retryCount[p]))]
                /\ retryCount' = [retryCount EXCEPT ![p] = @ + 1]
                /\ UNCHANGED <<fetchPc, pointWeather>>
           ELSE /\ pointWeather' = [pointWeather EXCEPT ![p] = ReturnedWeather(response)]
                /\ fetchPc' = [fetchPc EXCEPT ![p] = "done"]
                /\ UNCHANGED <<slept, retryCount>>
        /\ UNCHANGED <<routeVars, scoreVars, sortVars, extVars, callVars, gridVars>>

NextFetch == FetchAttempt

SpecFetch == InitFetch /\ [][NextFetch]_vars

\* C20: for each point, retries follow rate-limit responses only and number at
\* most 3: at most 4 requests, the waits are 1 s, 2 s, 4 s in that order, and
\* the call ends with the first response that is no rate limit or with the 4th
\* rate limit, with the forecast if that response was good and 'no weather'
\* otherwise, after which no request is issued for the point
C20_RetryOnRateLimitOnly ==
    \A p \in DOMAIN fetchPc :
        LET sent == Len(requests[p])
            waits == Len(slept[p])
        IN  /\ sent <= 4 /\ waits <= 3
            /\ slept[p] = SubSeq(<<1000, 2000, 4000>>, 1, waits)
            /\ \A k \in 1..waits : requests[p][k] = "429"
            /\ fetchPc[p] = "call" => sent = waits /\ pointWeather[p] = "none"
            /\ fetchPc[p] = "done" =>
                  /\ sent = waits + 1
                  /\ requests[p][sent] = "429" => waits = 3
                  /\ pointWeather[p] = (IF requests[p][sent] = "ok" THEN "daily" ELSE "null")

\* one point given up after the 4th rate limit while the other got its forecast
C20_Witness ==
    /\ DOMAIN fetchPc = {1, 2}
    /\ fetchPc[1] = "done" /\ requests[1] = <<"429", "429", "429", "429">>
    /\ slept[1] = <<1000, 2000, 4000>> /\ pointWeather[1] = "null"
    /\ fetchPc[2] = "done" /\ pointWeather[2] = "daily"

----------------------------------------------------------------------------
(* fetchWeatherForGrid: the batches of a search (SpecBatch).  A call of      *)
(* fetchWeatherForPoint, its retries included, is one step here: it settles   *)
(* with the last response of one of its complete runs.  The index of a grid  *)
(* point is its position counted from 1, as in the scorer above.              *)

MaxGridPoints == 6

batchSize == 5

delayBetweenBatches == 1000

\* the complete runs of fetchWeatherForPoint: the responses to its requests,
\* every one but the last followed by a retry
FetchRuns ==
    {s \in UNION {[1..n -> Responses] : n \in 1..4} :
        /\ \A k \in 1..(Len(s) - 1) : MayRetry(s[k], k - 1)
        /\ ~MayRetry(s[Len(s)], Len(s) - 1)}

\* the responses a call of fetchWeatherForPoint can end with
FinalResponses == {run[Len(run)] : run \in FetchRuns}

\* data.daily of the forecast the weather service holds for point p
ForecastAt(p) ==
    Daily(<<[tmax |-> 25, tmin |-> 20, rain |-> 0, prob |-> 10 * (p % 4),
             sun |-> 50400, wind |-> 0]>>)

\* the object fetchWeatherForPoint returned for point p
ResultOf(p) ==
    [index |-> gridPoints[p].index,
     weather |-> IF pointWeather[p] = "daily" THEN ForecastAt(p) ELSE NoWeather]

\* the mutant of BatchOf: the whole rest of the grid in one batch
BatchToTheEnd(i) == (i + 1)..Len(gridPoints)

\* gridPoints.slice(i, i + batchSize), as positions counted from 1
BatchOf(i) == {p \in 1..Len(gridPoints) : i < p /\ p <= i + batchSize}

\* i + batchSize < gridPoints.length
MoreBatches(i) == i + batchSize < Len(gridPoints)

\* batchResults in the order of the batch
RECURSIVE BatchResults(_, _)
BatchResults(i, k) ==
    IF k > Len(gridPoints) \/ k > i + batchSize THEN <<>>
    ELSE <<ResultOf(k)>> \o BatchResults(i, k + 1)

InitBatch ==
    /\ \E n \in 0..MaxGridPoints :
          /\ gridPoints = [p \in 1..n |-> [index |-> p]]
          /\ fetchPc = [p \in 1..n |-> "wait"]
          /\ pointWeather = [p \in 1..n |-> "none"]
          /\ settled = [p \in 1..n |-> ""]
    /\ retryCount = <<>> /\ requests = <<>> /\ slept = <<>>
    /\ gridPc = "loop" /\ batchStart = 0 /\ results = <<>> /\ pauses = <<>>
    /\ searchInput = <<>> /\ weatherRequests = <<>>
    /\ SortFresh /\ NoCall /\ NoData /\ NoDisplay /\ searches = <<>>
    /\ fetched = <<>> /\ searchPc = "fetching"
    /\ pc = "idle" /\ alertMsg = "" /\ loading = TRUE /\ osrmCalled = FALSE
    /\ maxTravel = 0 /\ totalDays = 0 /\ startPoint = NoPoint
    /\ sortedSpots = <<>> /\ route = <<>> /\ visited = {}
    /\ currentPoint = NoPoint /\ day = 0

\* batch.map(point => this.fetchWeatherForPoint(point, days)): the request of
\* every point of the batch is issued
MapBatch ==
    /\ gridPc = "loop" /\ batchStart < Len(gridPoints)
    /\ fetchPc' = [p \in DOMAIN fetchPc |->
                      IF p \in BatchOf(batchStart) THEN "call" ELSE fetchPc[p]]
    /\ gridPc' = "await"
    /\ UNCHANGED <<routeVars, displayVars, searches, scoreVars, sortVars, callVars, gridVars, retryCount,
                   requests, slept, pointWeather, batchStart, results, pauses, settled>>

\* fetchWeatherForPoint of one point in flight runs to its return
FetchSettles ==
    \E p \in DOMAIN fetchPc, last \in FinalResponses :
        /\ fetchPc[p] = "call"
        /\ settled' = [settled EXCEPT ![p] = last]
        /\ pointWeather' = [pointWeather EXCEPT ![p] = ReturnedWeather(last)]
        /\ fetchPc' = [fetchPc EXCEPT ![p] = "done"]
        /\ UNCHANGED <<routeVars, displayVars, searches, scoreVars, sortVars, callVars, gridVars, retryCount,
                       requests, slept, gridPc, batchStart, results, pauses>>

\* await Promise.all(batchPromises) returns; results.push(...batchResults);
\* then the sleep is entered or the next turn of the loop
AwaitBatch ==
    /\ gridPc = "await"
    /\ \A p \in BatchOf(batchStart) : fetchPc[p] = "done"
    /\ results' = results \o BatchResults(batchStart, batchStart + 1)
    /\ IF MoreBatches(batchStart)
       THEN gridPc' = "sleep" /\ UNCHANGED batchStart
       ELSE gridPc' = "loop" /\ batchStart' = batchStart + batchSize
    /\ UNCHANGED <<routeVars, displayVars, searches, scoreVars, sortVars, callVars, gridVars, fetchVars,
                   pauses, settled>>

\* await this.sleep(delayBetweenBatches) returns
SleepBetweenBatches ==
    /\ gridPc = "sleep"
    /\ pauses' = Append(pauses, delayBetweenBatches)
    /\ batchStart' = batchStart + batchSize
    /\ gridPc' = "loop"
    /\ UNCHANGED <<routeVars, displayVars, searches, scoreVars, sortVars, callVars, gridVars, fetchVars,
                   results, settled>>

\* return results, to handleSearch
ReturnResults ==
    /\ gridPc = "loop" /\ batchStart >= Len(gridPoints)
    /\ searchPc = "fetching"
    /\ fetched' = results
    /\ searchPc' = "fetched"
    /\ gridPc' = "returned"
    /\ UNCHANGED <<routeVars, displayVars, searches, sortVars, callVars, gridVars, fetchVars,
                   batchStart, results, pauses, settled>>

NextBatch ==
    MapBatch \/ FetchSettles \/ AwaitBatch \/ SleepBetweenBatches \/ ReturnResults
        \/ ScoreResults

SpecBatch == InitBatch /\ [][NextBatch]_vars

\* the points whose fetch ended with a forecast
Succeeded == {p \in DOMAIN settled : settled[p] = "ok"}

\* C21: whatever the per-point outcomes are, fetchWeatherForGrid returns one
\* result per grid point in grid order, a point whose fetch failed (error
\* status, rejected fetch, unparsable body, rate limit to the last retry)
\* carrying no weather and every other its forecast; calculateScores then
\* scores exactly the points that did not fail, and the search completes
C21_PointFailuresAbsorbed ==
    /\ gridPc = "returned" =>
          /\ Len(fetched) = Len(gridPoints)
          /\ \A p \in 1..Len(gridPoints) :
                /\ settled[p] \in Responses
                /\ fetched[p].index = gridPoints[p].index
                /\ fetched[p].weather =
                      (IF settled[p] = "ok" THEN ForecastAt(p) ELSE NoWeather)
    /\ searchPc = "scored" =>
          /\ {weatherData[i].id : i \in 1..Len(weatherData)} = Succeeded
          /\ Len(weatherData) = Cardinality(Succeeded)
          /\ alertMsg = "" /\ ~loading

\* a search of six points scored: one point of every kind of failure, and
\* the two that succeeded in the table
C21_Witness ==
    /\ searchPc = "scored" /\ Len(gridPoints) = 6
    /\ settled = <<"ok", "500", "rejected", "badjson", "429", "ok">>
    /\ Len(weatherData) = 2

\* C22: a finished search whose every grid point failed has shown an error
\* to the user, and a finished search with a forecast for at least one point
\* has shown none
C22_AllFailedIsAnError ==
    (searchPc = "scored" /\ Len(gridPoints) >= 1) =>
        (alertMsg # "" <=> Succeeded = {})

----------------------------------------------------------------------------
(* Claims about the road lookup of optimizeRoute (Spec) *)

\* where optimizeRoute stood when it pushed the k-th stop of route r
PositionBefore(r, k) == IF k = 1 THEN startPoint ELSE r[k - 1].location.id

\* the stops of route r that the day loop pushed: all but the seed
LoopStops(r) == {k \in 1..Len(r) : ~(k = 1 /\ startPoint = NoPoint)}

\* C23: a failed road lookup never stops the route-building flow; every stop
\* the day loop pushes records either the great-circle distance of the pair
\* (whole km) with the drive time distance / 80 * 60 (whole minutes), which
\* is what a failed lookup leaves, or the distance the service answered with
\* its duration in minutes (both rounded); and buildRoute ends with its
\* route or its failure alert, the loading indicator hidden
C23_FallbackOnFailedLookup ==
    /\ \A k \in LoopStops(route) :
          LET air == geo[<<PositionBefore(route, k), route[k].location.id>>]
          IN  \/ /\ route[k].distance = RoundDiv(air, 10)
                 /\ route[k].driveTime = RoundDiv(air * 60, 800)
              \/ \E reply \in RouteReplies :
                    /\ route[k].distance = RoundDiv(reply.distance, 1000)
                    /\ route[k].driveTime = RoundDiv(reply.duration, 60)
    /\ pc = "done" => ~loading /\ (alertMsg # "" \/ currentRoute # <<>>)

\* a route of two stops: the first recorded from the service's answer (60 km,
\* 46 minutes), the second from the great-circle distance of 50 km (38 minutes)
C23_Witness ==
    /\ pc = "done" /\ Len(currentRoute) = 2 /\ startPoint # NoPoint
    /\ currentRoute[1].distance = 60 /\ currentRoute[1].driveTime = 46
    /\ currentRoute[2].distance = 50 /\ currentRoute[2].driveTime = 38

----------------------------------------------------------------------------
(* Progress of buildRoute (SpecLive).  The steps of the day loop that need   *)
(* no answer from the road service are taken whenever they can be: the event *)
(* loop runs every continuation that is ready.  A step that awaits           *)
(* fetch(url) in calculateRoadDistance is taken only when the service        *)
(* answers, and nothing obliges it to: the code sets no timer on the fetch.  *)

\* the iteration that issues no road request: no unvisited candidate within
\* the air-distance prefilter, so findNextBestLocation returns null at once
DayWithoutLookup ==
    /\ CandidatesInRange(currentPoint, sortedSpots, visited, maxTravel) = {}
    /\ DayBreak

SpecLive == Init /\ [][Next]_vars /\ WF_vars(LoopEnd) /\ WF_vars(DayWithoutLookup)

\* C24: a route build that has entered the day loop ends, with the loading
\* indicator hidden (route shown or failure reported), also when a request
\* to the road service never receives a response
C24_RouteBuildCompletes == (pc = "loop") ~> (pc = "done" /\ ~loading)

----------------------------------------------------------------------------
(* Searches and route builds one after the other (SpecCycle).  A search is   *)
(* one step here, from showLoading(true) to showLoading(false); the grid of  *)
(* area a has the two points 2a - 1 and 2a, any two points 50 km apart.      *)

MaxAreas == 2

AreaPoints(a) == <<2 * a - 1, 2 * a>>

\* what fetchWeatherForGrid returns for the grid of area a
AreaFetch(a) ==
    [k \in 1..2 |-> [index |-> AreaPoints(a)[k], weather |-> ForecastAt(AreaPoints(a)[k])]]

\* the great-circle distances of the points of all areas
AreaGeo ==
    [pq \in (1..(2 * MaxAreas)) \X (1..(2 * MaxAreas)) |->
        IF pq[1] = pq[2] THEN 0 ELSE 500]

InitCycle ==
    /\ Untouched /\ SearchIdle /\ RouteIdle
    /\ weatherData = <<>> /\ currentRoute = <<>> /\ shownRoute = <<>>
    /\ geo = AreaGeo

\* handleSearch from start to end, the weather of every point fetched
SearchArea ==
    /\ pc = "idle"
    /\ \E a \in 1..MaxAreas :
          /\ fetched' = AreaFetch(a)
          /\ weatherData' = calculateScores(AreaFetch(a))
          /\ displayResults(weatherData')
    /\ searchPc' = "scored"
    /\ loading' = FALSE
    /\ UNCHANGED <<currentRoute, shownRoute>>
    /\ UNCHANGED <<sortVars, fetchVars, callVars, gridVars, batchVars, searches, geo, pc,
                   alertMsg, osrmCalled, maxTravel, totalDays, startPoint, sortedSpots,
                   route, visited, currentPoint, day>>

\* handleSearch in which geocodeLocation throws: the catch block alerts
SearchFails ==
    /\ pc = "idle"
    /\ \E message \in {"Error: Geocoding failed", "Error: Location not found"} :
          alertMsg' = message
    /\ searchPc' = "failed"
    /\ loading' = FALSE
    /\ UNCHANGED <<currentRoute, shownRoute>>
    /\ UNCHANGED <<sortVars, fetchVars, callVars, gridVars, extVars, fetched, weatherData,
                   geo, pc, osrmCalled, maxTravel, totalDays, startPoint, sortedSpots,
                   route, visited, currentPoint, day>>

\* buildRoute has returned; its locals are gone
BuildRouteReturns ==
    /\ pc = "done"
    /\ pc' = "idle"
    /\ maxTravel' = 0 /\ totalDays' = 0 /\ startPoint' = NoPoint
    /\ sortedSpots' = <<>> /\ route' = <<>> /\ visited' = {}
    /\ currentPoint' = NoPoint /\ day' = 0
    /\ UNCHANGED <<scoreVars, otherVars, weatherData, geo, alertMsg, loading, currentRoute,
                   shownRoute, osrmCalled>>

NextCycle ==
    SearchArea \/ SearchFails \/ BuildRouteReturns
        \/ BuildRouteRefuse \/ BuildRouteStart \/ DayStop \/ DayBreak \/ LoopEnd

SpecCycle == InitCycle /\ [][NextCycle]_vars

\* every location of route r is one of the scored locations held
WithinData(r) ==
    \A k \in 1..Len(r) : \E i \in 1..Len(weatherData) :
        weatherData[i].id = r[k].location.id

\* C25: once a search has finished the instance holds nothing of an earlier
\* cycle: the route held and the route drawn reference only locations of the
\* current weatherData, and after a failed search no weatherData is held
C25_NothingOutlivesACycle ==
    /\ searchPc \in {"scored", "failed"} =>
          WithinData(currentRoute) /\ WithinData(shownRoute)
    /\ searchPc = "failed" => weatherData = <<>>

----------------------------------------------------------------------------
(* The weights of the README (SpecScore) *)

\* the score as the README states it, in tenths: 0.40 rainScore + 0.30
\* sunScore + 0.20 tempScore + 0.10 windScore rounded to one decimal, the
\* sub-scores being those of calculateScores (rainScore its rainChanceScore);
\* 20 * totalScore is x / l below
ReadmeScore(weather) ==
    LET rc == RainChanceScore(weather)
        su == SunScore(weather)
        wi == WindScore(weather)
        te == calculateTempScore(AvgTemp(weather))
        l  == rc.d * su.d * wi.d
        x  == 8 * rc.n * (l \div rc.d) + 6 * su.n * (l \div su.d)
                + 4 * te * l + 2 * wi.n * (l \div wi.d)
    IN  (x + l) \div (2 * l)

\* C26: the score of every scored location is the weighted sum of four
\* factors, rain chance 40%, sun hours 30%, temperature 20%, wind speed 10%
C26_ReadmeWeights ==
    searchPc = "scored" =>
        \A i \in 1..Len(weatherData) : weatherData[i].score = ReadmeScore(WeatherOf(i))

----------------------------------------------------------------------------
(* The batches of fetchWeatherForGrid (SpecBatch) *)

\* the points whose fetchWeatherForPoint has been called and has not returned
InFlight == {p \in DOMAIN fetchPc : fetchPc[p] = "call"}

\* the number of the batch point p falls in, from 0
BatchNumber(p) == (p - 1) \div batchSize

\* the number of batches of the grid
BatchCount == (Len(gridPoints) + batchSize - 1) \div batchSize

\* C27: at most 5 point fetches are in flight at any time; a fetch of a later
\* batch is started only when every fetch of the batches before it has
\* settled and one pause per earlier batch has elapsed; every pause is 1 s;
\* and the pauses number one less than the batches, none after the last
C27_BatchesOfFive ==
    /\ Cardinality(InFlight) <= 5
    /\ \A q \in DOMAIN fetchPc :
          fetchPc[q] # "wait" =>
              /\ Len(pauses) >= BatchNumber(q)
              /\ \A p \in DOMAIN fetchPc :
                    BatchNumber(p) < BatchNumber(q) => fetchPc[p] = "done"
    /\ \A k \in 1..Len(pauses) : pauses[k] = 1000
    /\ Len(pauses) < BatchCount \/ (BatchCount = 0 /\ pauses = <<>>)
    /\ (gridPc = "returned" /\ BatchCount > 0) => Len(pauses) = BatchCount - 1

\* a grid of six points fetched: five in the first batch, one pause, the
\* sixth alone, and the results returned with no second pause
C27_Witness ==
    /\ Len(gridPoints) = 6 /\ gridPc = "returned"
    /\ pauses = <<1000>> /\ Len(fetched) = 6

----------------------------------------------------------------------------
(* The previousLocation argument (SpecGC) *)

\* the unvisited candidates nearer to the stop before the current position
\* than to the current position
BehindCurrent ==
    {i \in GCSurvivors :
        /\ StopBeforeCurrent # NoPoint
        /\ geo[<<sortedSpots[i].id, StopBeforeCurrent>>]
              < geo[<<currentPoint, sortedSpots[i].id>>]}

\* C28: whenever optimizeRoute calls findNextBestLocation, the route is empty
\* (on day 1 with an explicit start, and then only) or its last location is
\* the current position; the argument previousLocation is that location, so
\* with great-circle forward distances the total score of every candidate
\* within the budget is its weather score plus the distance bonus, nothing
\* deducted
C28_PreviousIsCurrentPosition ==
    EvaluatingDay =>
        /\ \/ route = <<>> /\ startPoint # NoPoint /\ day = 1
           \/ route # <<>> /\ route[Len(route)].location.id = currentPoint
        /\ route = <<>> => PreviousLocation(route) = NoPoint
        /\ route # <<>> => PreviousLocation(route) = currentPoint
        /\ \A i \in GCSurvivors :
              LET distance == geo[<<currentPoint, sortedSpots[i].id>>]
              IN  TotalScore(sortedSpots[i], distance, maxTravel, PreviousLocation(route))
                     = sortedSpots[i].score * maxTravel + 30 * (10 * maxTravel - distance)

\* a day is evaluated with two stops on the route and a candidate within the
\* budget that lies nearer to the stop before the current position
C28_Witness == EvaluatingDay /\ Len(route) >= 2 /\ BehindCurrent # {}

----------------------------------------------------------------------------
(* The start-location dropdown (SpecSort) *)

\* C29: whatever handleSort calls follow the search that filled the dropdown,
\* the start buildRoute takes for a selected option is the location that
\* option names
C29_StartIsSelectedOption ==
    (searchPc = "scored" /\ ~TooFewSpots(weatherData)) =>
        \A k \in 1..Len(dropdown) :
            k <= Len(weatherData) /\ SelectedPoint(k) = dropdown[k]

----------------------------------------------------------------------------
(* Searches under way at the same time (SpecRace).  The search button is     *)
(* disabled while the loading indicator is shown, the Enter key in the       *)
(* location field is not: handleSearch can be called while an earlier call   *)
(* awaits its geocoding or its forecasts.  A call is two steps here, up to   *)
(* its first await and from the return of its last await to its end.         *)

MaxSearches == 3

InitRace == Untouched /\ SearchIdle /\ RouteIdle /\ NoData

\* handleSearch is called for area a: showLoading(true), and the call awaits
HandleSearchStart ==
    /\ Len(searches) < MaxSearches
    /\ \E a \in 1..MaxAreas :
          searches' = Append(searches, [pc |-> "fetching", area |-> a])
    /\ loading' = TRUE
    /\ UNCHANGED <<scoreVars, sortVars, fetchVars, callVars, gridVars, batchVars,
                   displayVars, weatherData, geo, pc, alertMsg, currentRoute, shownRoute,
                   osrmCalled, maxTravel, totalDays, startPoint, sortedSpots, route,
                   visited, currentPoint, day>>

\* fetchWeatherForGrid returns to one of the calls under way: it assigns
\* this.weatherData, displays the results and hides the loading indicator
HandleSearchFinish ==
    \E k \in 1..Len(searches) :
        /\ searches[k].pc = "fetching"
        /\ weatherData' = calculateScores(AreaFetch(searches[k].area))
        /\ displayResults(weatherData')
        /\ loading' = FALSE
        /\ searches' = [searches EXCEPT ![k].pc = "done"]
        /\ UNCHANGED <<scoreVars, sortVars, fetchVars, callVars, gridVars, batchVars,
                       geo, pc, alertMsg, currentRoute, shownRoute, osrmCalled, maxTravel,
                       totalDays, startPoint, sortedSpots, route, visited, currentPoint,
                       day>>

\* geocodeLocation throws in one of the calls under way: the catch block
\* alerts, finally hides the loading indicator
HandleSearchThrows ==
    \E k \in 1..Len(searches) :
        /\ searches[k].pc = "fetching"
        /\ \E message \in {"Error: Geocoding failed", "Error: Location not found"} :
              alertMsg' = message
        /\ loading' = FALSE
        /\ searches' = [searches EXCEPT ![k].pc = "failed"]
        /\ UNCHANGED <<scoreVars, sortVars, fetchVars, callVars, gridVars, batchVars,
                       displayVars, weatherData, geo, pc, currentRoute, shownRoute,
                       osrmCalled, maxTravel, totalDays, startPoint, sortedSpots, route,
                       visited, currentPoint, day>>

NextRace == HandleSearchStart \/ HandleSearchFinish \/ HandleSearchThrows

SpecRace == InitRace /\ [][NextRace]_vars

\* every call of handleSearch made so far has displayed its results
AllFinished == \A k \in 1..Len(searches) : searches[k].pc = "done"

\* the results of the search started last
LastStarted == calculateScores(AreaFetch(searches[Len(searches)].area))

\* C30: once two or more searches, started one while another was under way or
\* not, have all finished, weatherData, the table, the markers and the
\* dropdown hold the results of the search started last
C30_LastStartedSearchWins ==
    (Len(searches) >= 2 /\ AllFinished) =>
        /\ weatherData = LastStarted
        /\ table = Ids(LastStarted) /\ markers = Ids(LastStarted)
        /\ dropdown = Ids(LastStarted)

====
